---------------------------- MODULE Spec2Model ----------------------------
(***************************************************************************)
(* The request handlers of the PPTX generation services (src/index.js and  *)
(* src/unnamed/part_000 .. part_003) as one state machine: a request is    *)
(* parsed by the JSON body parser, handed to one route handler, which      *)
(* builds a presentation slide by slide and element by element, encodes it *)
(* and answers.                                                            *)
(*                                                                         *)
(* JSON values are tagged records; a string is a tuple of one-character    *)
(* strings, an object an ordered tuple of <<key, value>> pairs, a number   *)
(* an integer count of hundredths (1.5 is Num(150)).                       *)
(***************************************************************************)
EXTENDS Integers, Sequences, FiniteSets, TLC

VARIABLES route, req, pc, pptx, si, oi, resp, sends, log, err,
          now, files, jobs

vars == <<route, req, pc, pptx, si, oi, resp, sends, log, err, now, files, jobs>>

----------------------------------------------------------------------------
(* Bounds of the model *)

MaxSlides == 2

MaxElems == 2

\* the elements of a request of the specification of the dispatchers
MaxDispatchElems == 3

\* the elements of a request of the specification of the draw order
MaxOrderElems == 2

\* the elements of a request of the specification of the tables
MaxTableElems == 1

\* the requests in flight at once in the specification of the temporary files
MaxRequests == 2

\* the milliseconds the clock of that specification can advance
MaxClock == 1

----------------------------------------------------------------------------
(* JSON / JavaScript values *)

Undef == [t |-> "undefined"]

Null == [t |-> "null"]

NaN == [t |-> "nan"]

Str(s) == [t |-> "string", s |-> s]

Num(n) == [t |-> "number", n |-> n]

Bool(b) == [t |-> "boolean", b |-> b]

Arr(a) == [t |-> "array", a |-> a]

Obj(f) == [t |-> "object", f |-> f]

\* a whole number
N(i) == Num(i * 100)

EmptyObj == Obj(<<>>)

EmptyStr == Str(<<>>)

IsArray(v) == v.t = "array"

IsString(v) == v.t = "string"

Nullish(v) == v.t \in {"undefined", "null"}

\* JavaScript truthiness
Truthy(v) ==
  CASE v.t = "undefined" -> FALSE
    [] v.t = "null" -> FALSE
    [] v.t = "nan" -> FALSE
    [] v.t = "string" -> v.s # <<>>
    [] v.t = "number" -> v.n # 0
    [] v.t = "boolean" -> v.b
    [] OTHER -> TRUE

\* a || b
Or(a, b) == IF Truthy(a) THEN a ELSE b

Lookup(f, k) ==
  LET I == {i \in 1..Len(f) : f[i][1] = k}
  IN  IF I = {} THEN Undef
      ELSE f[CHOOSE i \in I : \A j \in I : j <= i][2]

\* v.k for a v that is neither null nor undefined (those throw a TypeError,
\* which every caller tests with Nullish before reading)
Get(v, k) == IF v.t = "object" THEN Lookup(v.f, k) ELSE Undef

\* v?.k
OptGet(v, k) == IF Nullish(v) THEN Undef ELSE Get(v, k)

\* { ...o, k: v }
Put(o, k, v) ==
  IF \E i \in 1..Len(o.f) : o.f[i][1] = k
  THEN Obj([i \in 1..Len(o.f) |-> IF o.f[i][1] = k THEN <<k, v>> ELSE o.f[i]])
  ELSE Obj(Append(o.f, <<k, v>>))

RECURSIVE PutAll(_, _)
\* { ...o, ...fields }
PutAll(o, f) ==
  IF f = <<>> THEN o ELSE PutAll(Put(o, f[1][1], f[1][2]), Tail(f))

\* { ...o, ...v }: spreading undefined, null, a number or a boolean adds
\* nothing (a string or an array would add its indices; no request of the
\* model has one where an object is spread)
Spread(o, v) == IF v.t = "object" THEN PutAll(o, v.f) ELSE o

----------------------------------------------------------------------------
(* Strings *)

Digits == <<"0", "1", "2", "3", "4", "5", "6", "7", "8", "9">>

IsDigit(c) == \E d \in 1..10 : Digits[d] = c

DigitVal(c) == (CHOOSE d \in 1..10 : Digits[d] = c) - 1

IsSpace(c) == c \in {" ", "\t", "\n", "\r"}

RECURSIVE TrimLeft(_)
TrimLeft(s) == IF s # <<>> /\ IsSpace(s[1]) THEN TrimLeft(Tail(s)) ELSE s

RECURSIVE TrimRight(_)
TrimRight(s) ==
  IF s # <<>> /\ IsSpace(s[Len(s)]) THEN TrimRight(SubSeq(s, 1, Len(s) - 1))
  ELSE s

\* String.prototype.trim
Trim(s) == TrimRight(TrimLeft(s))

\* String.prototype.includes for a one-character needle
Includes(s, c) == \E i \in 1..Len(s) : s[i] = c

\* String.prototype.endsWith for a one-character needle
EndsWith(s, c) == s # <<>> /\ s[Len(s)] = c

Lower == <<"a", "b", "c", "d", "e", "f", "g", "h", "i", "j", "k", "l", "m",
           "n", "o", "p", "q", "r", "s", "t", "u", "v", "w", "x", "y", "z">>

Upper == <<"A", "B", "C", "D", "E", "F", "G", "H", "I", "J", "K", "L", "M",
           "N", "O", "P", "Q", "R", "S", "T", "U", "V", "W", "X", "Y", "Z">>

UpperChar(c) ==
  IF \E i \in 1..26 : Lower[i] = c
  THEN Upper[CHOOSE i \in 1..26 : Lower[i] = c]
  ELSE c

\* String.prototype.toUpperCase
ToUpperCase(s) == [i \in 1..Len(s) |-> UpperChar(s[i])]

RECURSIVE Join(_, _)
\* Array.prototype.join of strings
Join(ss, sep) ==
  IF ss = <<>> THEN <<>>
  ELSE IF Len(ss) = 1 THEN ss[1]
  ELSE ss[1] \o sep \o Join(Tail(ss), sep)

RECURSIVE SplitAcc(_, _, _)
SplitAcc(s, c, cur) ==
  IF s = <<>> THEN <<cur>>
  ELSE IF s[1] = c THEN <<cur>> \o SplitAcc(Tail(s), c, <<>>)
  ELSE SplitAcc(Tail(s), c, Append(cur, s[1]))

\* String.prototype.split on a one-character separator
Split(s, c) == SplitAcc(s, c, <<>>)

----------------------------------------------------------------------------
(* Numbers: parseFloat and parseInt, to two decimal places *)

RECURSIVE LeadDigits(_)
\* the longest prefix of digits
LeadDigits(s) ==
  IF s # <<>> /\ IsDigit(s[1]) THEN <<s[1]>> \o LeadDigits(Tail(s)) ELSE <<>>

RECURSIVE DigitsVal(_, _)
DigitsVal(ds, acc) ==
  IF ds = <<>> THEN acc ELSE DigitsVal(Tail(ds), acc * 10 + DigitVal(ds[1]))

\* the first two decimal places of a run of fraction digits, as hundredths
FracVal(ds) ==
  (IF Len(ds) >= 1 THEN 10 * DigitVal(ds[1]) ELSE 0)
  + (IF Len(ds) >= 2 THEN DigitVal(ds[2]) ELSE 0)

\* the unsigned decimal literal that starts s; NaN when there is none
ParseUnsigned(s, withFraction) ==
  LET int  == LeadDigits(s)
      rest == SubSeq(s, Len(int) + 1, Len(s))
      frac == IF withFraction /\ rest # <<>> /\ rest[1] = "."
              THEN LeadDigits(Tail(rest)) ELSE <<>>
  IN  IF int = <<>> /\ frac = <<>> THEN NaN
      ELSE Num(DigitsVal(int, 0) * 100 + FracVal(frac))

ParseSigned(s, withFraction) ==
  LET neg  == s # <<>> /\ s[1] = "-"
      body == IF s # <<>> /\ s[1] \in {"-", "+"} THEN Tail(s) ELSE s
      u    == ParseUnsigned(body, withFraction)
  IN  IF u.t = "number" /\ neg THEN Num(0 - u.n) ELSE u

RECURSIVE parseFloat(_)
\* parseFloat(v): v is first converted to a string
parseFloat(v) ==
  CASE v.t = "number" -> v
    [] v.t = "string" -> ParseSigned(TrimLeft(v.s), TRUE)
    [] v.t = "array" ->
         IF v.a = <<>> \/ Nullish(v.a[1]) THEN NaN ELSE parseFloat(v.a[1])
    [] OTHER -> NaN

RECURSIVE parseInt(_)
\* parseInt(v): the integer part only
parseInt(v) ==
  CASE v.t = "number" ->
         Num(IF v.n >= 0 THEN (v.n \div 100) * 100
             ELSE 0 - (((0 - v.n) \div 100) * 100))
    [] v.t = "string" -> ParseSigned(TrimLeft(v.s), FALSE)
    [] v.t = "array" ->
         IF v.a = <<>> \/ Nullish(v.a[1]) THEN NaN ELSE parseInt(v.a[1])
    [] OTHER -> NaN

----------------------------------------------------------------------------
(* String literals of the handlers *)

sText == Str(<<"t", "e", "x", "t">>)

sImage == Str(<<"i", "m", "a", "g", "e">>)

sShape == Str(<<"s", "h", "a", "p", "e">>)

sChart == Str(<<"c", "h", "a", "r", "t">>)

sTable == Str(<<"t", "a", "b", "l", "e">>)

sMedia == Str(<<"m", "e", "d", "i", "a">>)

sNotes == Str(<<"n", "o", "t", "e", "s">>)

sRect == Str(<<"r", "e", "c", "t">>)

sRECTANGLE == Str(<<"R", "E", "C", "T", "A", "N", "G", "L", "E">>)

sLINE == Str(<<"L", "I", "N", "E">>)

sCOLUMN == Str(<<"C", "O", "L", "U", "M", "N">>)

sLeft == Str(<<"l", "e", "f", "t">>)

sTop == Str(<<"t", "o", "p">>)

sArial == Str(<<"A", "r", "i", "a", "l">>)

s000000 == Str(<<"0", "0", "0", "0", "0", "0">>)

sFFFFFF == Str(<<"F", "F", "F", "F", "F", "F">>)

s0066CC == Str(<<"0", "0", "6", "6", "C", "C">>)

s666666 == Str(<<"6", "6", "6", "6", "6", "6">>)

sF7F7F7 == Str(<<"F", "7", "F", "7", "F", "7">>)

sSolid == Str(<<"s", "o", "l", "i", "d">>)

sR == Str(<<"r">>)

s100pct == Str(<<"1", "0", "0", "%">>)

sVideo == Str(<<"v", "i", "d", "e", "o">>)

sAudio == Str(<<"a", "u", "d", "i", "o">>)

sNoTitle == Str(<<"N", "o", " ", "T", "i", "t", "l", "e">>)

s363636 == Str(<<"3", "6", "3", "6", "3", "6">>)

sCenter == Str(<<"c", "e", "n", "t", "e", "r">>)

s333333 == Str(<<"3", "3", "3", "3", "3", "3">>)

sMyPresentation == Str(<<"M", "y", " ", "P", "r", "e", "s", "e", "n", "t", "a", "t", "i", "o", "n">>)

sPptxGenJSAPI == Str(<<"P", "p", "t", "x", "G", "e", "n", "J", "S", " ", "A", "P", "I">>)

sRailwayApp == Str(<<"R", "a", "i", "l", "w", "a", "y", " ", "A", "p", "p">>)

sJSONConverter == Str(<<"J", "S", "O", "N", " ", "C", "o", "n", "v", "e", "r", "t", "e", "r">>)

sConvertedPresentation == Str(<<"C", "o", "n", "v", "e", "r", "t", "e", "d", " ", "P", "r", "e", "s", "e", "n", "t", "a", "t", "i", "o", "n">>)

sLAYOUT16x9 == Str(<<"L", "A", "Y", "O", "U", "T", "_", "1", "6", "x", "9">>)

sAdvancedPresentation == Str(<<"A", "d", "v", "a", "n", "c", "e", "d", " ", "P", "r", "e", "s", "e", "n", "t", "a", "t", "i", "o", "n">>)

sGeneratedViaAPI == Str(<<"G", "e", "n", "e", "r", "a", "t", "e", "d", " ", "v", "i", "a", " ", "A", "P", "I">>)

sMASTERSLIDE == Str(<<"M", "A", "S", "T", "E", "R", "_", "S", "L", "I", "D", "E">>)

sObjectObject == Str(<<"[", "o", "b", "j", "e", "c", "t", " ", "O", "b", "j", "e", "c", "t", "]">>)

sImageSlide == Str(<<"I", "m", "a", "g", "e", " ", "S", "l", "i", "d", "e">>)

s1f4e79 == Str(<<"1", "f", "4", "e", "7", "9">>)

s444444 == Str(<<"4", "4", "4", "4", "4", "4">>)

sAPIUser == Str(<<"A", "P", "I", " ", "U", "s", "e", "r">>)

sContain == Str(<<"c", "o", "n", "t", "a", "i", "n">>)

\* `data:image/jpeg;base64,${..}`, the value processImage returns
sDataImage == Str(<<"d", "a", "t", "a", ":", "i", "m", "a", "g", "e">>)

----------------------------------------------------------------------------
(* The document under construction.  A slide records the draw calls made   *)
(* on it, in order, each with its arguments, and the background assigned.  *)

Call(fn, args) == [fn |-> fn, args |-> args]

\* pptx.addSlide()
NewSlide == [draws |-> <<>>, background |-> Undef]

\* a slide that would put each call before the calls made so far
AddCall_prepended(slide, fn, args) ==
  [slide EXCEPT !.draws = <<Call(fn, args)>> \o @]

\* slide.addText(..), slide.addShape(..), ..: the call is appended
AddCall(slide, fn, args) ==
  [slide EXCEPT !.draws = Append(@, Call(fn, args))]

\* the outcome of handling one element: the slide afterwards, what was
\* logged, and whether an exception leaves the element's code
Done(slide) == [slide |-> slide, logs |-> <<>>, thrown |-> FALSE]

Logged(slide, level) == [slide |-> slide, logs |-> <<level>>, thrown |-> FALSE]

Thrown(slide) == [slide |-> slide, logs |-> <<>>, thrown |-> TRUE]

\* arr.map(t => ({ text: t.text, options: t.options || {} }))
Paragraphs(arr) ==
  Arr([i \in 1..Len(arr.a) |->
        Obj(<< <<"text", Get(arr.a[i], "text")>>,
               <<"options", Or(Get(arr.a[i], "options"), EmptyObj)>> >>)])

----------------------------------------------------------------------------
(* part_000: applySlideContent, the callback of elements.forEach           *)

\* the switch with its default label lost: an unknown type runs into the
\* statements of the last case
applySlideContent_part000_fallthrough(slide, el) ==
  IF Nullish(el) THEN Thrown(slide)
  ELSE
    LET type    == Get(el, "type")
        options == Get(el, "options")
        props   == Or(Get(options, "props"), EmptyObj)
    IN  IF ~Truthy(type) \/ ~Truthy(options) THEN Logged(slide, "warn")
        ELSE CASE type = sText ->
                    Done(AddCall(slide, "addText", <<Get(options, "text"), props>>))
               [] type = sImage ->
                    Done(AddCall(slide, "addImage", <<options>>))
               [] type = sShape ->
                    Done(AddCall(slide, "addShape", <<Get(options, "shape"), props>>))
               [] type = sChart ->
                    Done(AddCall(slide, "addChart",
                                 <<Get(options, "type"), Get(options, "data"), props>>))
               [] type = sTable ->
                    Done(AddCall(slide, "addTable", <<Get(options, "data"), props>>))
               [] OTHER ->
                    Done(AddCall(slide, "addMedia", <<options>>))

applySlideContent_part000(slide, el) ==
  IF Nullish(el) THEN Thrown(slide)
  ELSE
    LET type    == Get(el, "type")
        options == Get(el, "options")
        props   == Or(Get(options, "props"), EmptyObj)
    IN  IF ~Truthy(type) \/ ~Truthy(options) THEN Logged(slide, "warn")
        ELSE CASE type = sText ->
                    Done(AddCall(slide, "addText", <<Get(options, "text"), props>>))
               [] type = sImage ->
                    Done(AddCall(slide, "addImage", <<options>>))
               [] type = sShape ->
                    Done(AddCall(slide, "addShape", <<Get(options, "shape"), props>>))
               [] type = sChart ->
                    Done(AddCall(slide, "addChart",
                                 <<Get(options, "type"), Get(options, "data"), props>>))
               [] type = sTable ->
                    Done(AddCall(slide, "addTable", <<Get(options, "data"), props>>))
               [] type = sMedia ->
                    Done(AddCall(slide, "addMedia", <<options>>))
               [] OTHER -> Logged(slide, "warn")

----------------------------------------------------------------------------
(* part_001: applySlideContent, the callback of objects.forEach            *)

applySlideContent_part001(slide, obj) ==
  IF Nullish(obj) THEN Logged(slide, "error")
  ELSE
    LET text    == Get(obj, "text")
        table   == Get(obj, "table")
        image   == Get(obj, "image")
        rect    == Get(obj, "rect")
        shape   == Get(obj, "shape")
        chart   == Get(obj, "chart")
        media   == Get(obj, "media")
        options == Or(Get(obj, "options"), EmptyObj)
    IN  IF Truthy(text) /\ IsString(Get(text, "text"))
        THEN Done(AddCall(slide, "addText",
                          <<Get(text, "text"), Or(Get(text, "options"), EmptyObj)>>))
        ELSE IF Truthy(text) /\ IsArray(text)
        THEN IF \E i \in 1..Len(text.a) : Nullish(text.a[i])
             THEN Logged(slide, "error")
             ELSE Done(AddCall(slide, "addText", <<Paragraphs(text), options>>))
        ELSE IF Truthy(table) /\ Truthy(Get(table, "rows"))
        THEN Done(AddCall(slide, "addTable", <<Get(table, "rows"), options>>))
        ELSE IF Truthy(image)
        THEN Done(AddCall(slide, "addImage", <<image>>))
        ELSE IF Truthy(rect)
        THEN Done(AddCall(slide, "addShape", <<sRect, rect>>))
        ELSE IF Truthy(shape) /\ Truthy(Get(shape, "type"))
        THEN Done(AddCall(slide, "addShape",
                          <<Get(shape, "type"), Or(Get(shape, "options"), EmptyObj)>>))
        ELSE IF Truthy(chart) /\ Truthy(Get(chart, "type")) /\ Truthy(Get(chart, "data"))
        THEN Done(AddCall(slide, "addChart",
                          <<Get(chart, "type"), Get(chart, "data"),
                            Or(Get(chart, "options"), EmptyObj)>>))
        ELSE IF Truthy(media)
        THEN Done(AddCall(slide, "addMedia", <<media>>))
        ELSE Logged(slide, "warn")

----------------------------------------------------------------------------
(* part_002: parsePos and applyElement                                     *)

\* parsePos(val, total = 10)
parsePos(val) ==
  LET f == parseFloat(val)
  IN  IF IsString(val) /\ EndsWith(val.s, "%")
      THEN IF f.t = "number" THEN Num((f.n * 10) \div 100) ELSE NaN
      ELSE f

\* a map over the rows that would hand them back last row first
MapCells_rowsReversed(rows, k, dflt) ==
  Arr([r \in 1..Len(rows.a) |->
        Arr([c \in 1..Len(rows.a[Len(rows.a) + 1 - r].a) |->
              Or(Get(rows.a[Len(rows.a) + 1 - r].a[c], k), dflt)])])

\* element.table.rows.map(row => row.map(cell => cell.k || dflt))
MapCells(rows, k, dflt) ==
  Arr([r \in 1..Len(rows.a) |->
        Arr([c \in 1..Len(rows.a[r].a) |-> Or(Get(rows.a[r].a[c], k), dflt)])])

applyElement(slide, element) ==
  IF Nullish(element) THEN Thrown(slide)
  ELSE
    LET text  == Get(element, "text")
        table == Get(element, "table")
        eopts == Get(element, "options")
    IN  IF Truthy(text)
        THEN IF ~IsArray(text) \/ \E i \in 1..Len(text.a) : Nullish(text.a[i])
             THEN Thrown(slide)
             ELSE
               LET options ==
                     Spread(Obj(<< <<"x", parsePos(Or(OptGet(eopts, "x"), N(0)))>>,
                                   <<"y", parsePos(Or(OptGet(eopts, "y"), N(0)))>>,
                                   <<"w", parsePos(Or(OptGet(eopts, "w"), N(10)))>>,
                                   <<"h", parsePos(Or(OptGet(eopts, "h"), N(1)))>>,
                                   <<"align", Or(OptGet(eopts, "align"), sLeft)>>,
                                   <<"bullet", Or(OptGet(eopts, "bullet"), Bool(FALSE))>> >>),
                            eopts)
               IN  Done(AddCall(slide, "addText", <<Paragraphs(text), options>>))
        ELSE IF Truthy(table)
        THEN LET rows == Get(table, "rows")
             IN  IF ~IsArray(rows)
                    \/ \E r \in 1..Len(rows.a) :
                         \/ ~IsArray(rows.a[r])
                         \/ \E c \in 1..Len(rows.a[r].a) : Nullish(rows.a[r].a[c])
                 THEN Thrown(slide)
                 ELSE
                   LET options ==
                         Spread(Obj(<< <<"x", parsePos(Or(OptGet(eopts, "x"), N(1)))>>,
                                       <<"y", parsePos(Or(OptGet(eopts, "y"), N(1)))>>,
                                       <<"w", parsePos(Or(OptGet(eopts, "w"), N(8)))>>,
                                       <<"h", parsePos(Or(OptGet(eopts, "h"), N(5)))>> >>),
                                eopts)
                   IN  Done(AddCall(slide, "addTable",
                                    <<MapCells(rows, "text", EmptyStr),
                                      Put(options, "cellOpts",
                                          MapCells(rows, "options", EmptyObj))>>))
        ELSE Done(slide)

----------------------------------------------------------------------------
(* index.js: POST /api/presentation/from-json, the callback of             *)
(* slideData.objects.forEach.  The four blocks are independent ifs inside  *)
(* one try; an exception in a later block keeps what earlier blocks drew.  *)

\* typeof v === 'string' && v.includes('%') ? pct : (parseFloat(v) || dflt)
RectCoord(v, pct, dflt) ==
  IF IsString(v) /\ Includes(v.s, "%") THEN pct ELSE Or(parseFloat(v), dflt)

fromJson_rect(slide, obj) ==
  IF ~Truthy(Get(obj, "rect")) THEN slide
  ELSE
    LET rect  == Get(obj, "rect")
        x     == RectCoord(Get(rect, "x"), N(0), N(0))
        y     == RectCoord(Get(rect, "y"), N(0), N(0))
        w     == RectCoord(Get(rect, "w"), N(10), N(10))
        h     == RectCoord(Get(rect, "h"), Num(750), Num(750))
        color == Or(OptGet(Get(rect, "fill"), "color"), sFFFFFF)
    IN  IF x = N(0) /\ y = N(0) /\ (w.n >= 1000 \/ Get(rect, "w") = s100pct)
        THEN [slide EXCEPT !.background = Obj(<< <<"color", color>> >>)]
        ELSE AddCall(slide, "addShape",
               <<sRECTANGLE,
                 Obj(<< <<"x", x>>, <<"y", y>>, <<"w", w>>, <<"h", h>>,
                        <<"fill", Obj(<< <<"color", color>> >>)>>,
                        <<"line", Obj(<< <<"width", N(0)>> >>)>> >>)>>)

fromJson_text(slide, obj) ==
  IF ~Truthy(Get(obj, "text")) THEN slide
  ELSE
    LET textObj == Get(obj, "text")
        options == Or(Get(textObj, "options"), EmptyObj)
    IN  AddCall(slide, "addText",
          <<Or(Get(textObj, "text"), EmptyStr),
            Obj(<< <<"x", Or(parseFloat(Get(options, "x")), Num(50))>>,
                   <<"y", Or(parseFloat(Get(options, "y")), Num(50))>>,
                   <<"w", Or(parseFloat(Get(options, "w")), N(9))>>,
                   <<"h", Or(parseFloat(Get(options, "h")), N(1))>>,
                   <<"fontSize", Or(parseInt(Get(options, "fontSize")), N(16))>>,
                   <<"fontFace", Or(Get(options, "fontFace"), sArial)>>,
                   <<"color", Or(Get(options, "color"), s000000)>>,
                   <<"bold", Or(Get(options, "bold"), Bool(FALSE))>>,
                   <<"italic", Or(Get(options, "italic"), Bool(FALSE))>>,
                   <<"underline", Or(Get(options, "underline"), Bool(FALSE))>>,
                   <<"align", Or(Get(options, "align"), sLeft)>>,
                   <<"valign", Or(Get(options, "valign"), sTop)>>,
                   <<"rotate", Or(parseInt(Get(options, "rotate")), N(0))>> >>)>>)

\* shape.type?.toUpperCase() throws when type is neither nullish nor a string
fromJson_shapeThrows(obj) ==
  /\ Truthy(Get(obj, "shape"))
  /\ ~Nullish(Get(Get(obj, "shape"), "type"))
  /\ ~IsString(Get(Get(obj, "shape"), "type"))

fromJson_shape(slide, obj) ==
  IF ~Truthy(Get(obj, "shape")) THEN slide
  ELSE
    LET shape   == Get(obj, "shape")
        options == Or(Get(shape, "options"), EmptyObj)
        type    == Get(shape, "type")
        upper   == IF Nullish(type) THEN Undef ELSE Str(ToUpperCase(type.s))
    IN  AddCall(slide, "addShape",
          <<Or(upper, sRECTANGLE),
            Obj(<< <<"x", Or(parseFloat(Get(options, "x")), N(1))>>,
                   <<"y", Or(parseFloat(Get(options, "y")), N(1))>>,
                   <<"w", Or(parseFloat(Get(options, "w")), N(2))>>,
                   <<"h", Or(parseFloat(Get(options, "h")), N(2))>>,
                   <<"fill", Or(Get(options, "fill"),
                                Obj(<< <<"color", s0066CC>> >>))>>,
                   <<"line", Or(Get(options, "line"),
                                Obj(<< <<"color", s000000>>, <<"width", N(1)>> >>))>>,
                   <<"rotate", Or(parseInt(Get(options, "rotate")), N(0))>> >>)>>)

\* Math.abs(parseFloat(a) - parseFloat(b))
AbsDiff(a, b) ==
  LET fa == parseFloat(a)
      fb == parseFloat(b)
  IN  IF fa.t # "number" \/ fb.t # "number" THEN NaN
      ELSE Num(IF fa.n >= fb.n THEN fa.n - fb.n ELSE fb.n - fa.n)

fromJson_line(slide, obj) ==
  IF ~Truthy(Get(obj, "line")) THEN slide
  ELSE
    LET line    == Get(obj, "line")
        options == Or(Get(line, "options"), EmptyObj)
    IN  AddCall(slide, "addShape",
          <<sLINE,
            Obj(<< <<"x", Or(parseFloat(Get(options, "x1")),
                             Or(parseFloat(Get(options, "x")), N(1)))>>,
                   <<"y", Or(parseFloat(Get(options, "y1")),
                             Or(parseFloat(Get(options, "y")), N(1)))>>,
                   <<"w", Or(AbsDiff(Get(options, "x2"), Get(options, "x1")), N(2))>>,
                   <<"h", Or(AbsDiff(Get(options, "y2"), Get(options, "y1")), Num(10))>>,
                   <<"line", Or(Get(options, "line"),
                                Obj(<< <<"color", s000000>>, <<"width", N(2)>> >>))>> >>)>>)

fromJson_object(slide, obj) ==
  IF Nullish(obj) THEN Logged(slide, "warn")
  ELSE
    LET afterText == fromJson_text(fromJson_rect(slide, obj), obj)
    IN  IF fromJson_shapeThrows(obj) THEN Logged(afterText, "warn")
        ELSE Done(fromJson_line(fromJson_shape(afterText, obj), obj))

----------------------------------------------------------------------------
(* index.js: POST /api/presentation/advanced, the body of                  *)
(* for (const element of slideData.elements): a switch on element.type     *)
(* with no default and no try around it.                                   *)

\* element.k || dflt
Dflt(element, k, dflt) == <<k, Or(Get(element, k), dflt)>>

advanced_element(slide, element) ==
  IF Nullish(element) THEN Thrown(slide)
  ELSE
    LET type == Get(element, "type")
    IN  CASE type = sText ->
               Done(AddCall(slide, "addText",
                 <<Get(element, "text"),
                   Obj(<< Dflt(element, "x", Num(50)), Dflt(element, "y", Num(50)),
                          Dflt(element, "w", N(9)), Dflt(element, "h", N(1)),
                          Dflt(element, "fontSize", N(16)),
                          Dflt(element, "fontFace", sArial),
                          Dflt(element, "color", s000000),
                          Dflt(element, "bold", Bool(FALSE)),
                          Dflt(element, "italic", Bool(FALSE)),
                          Dflt(element, "underline", Bool(FALSE)),
                          Dflt(element, "align", sLeft),
                          Dflt(element, "valign", sTop),
                          Dflt(element, "rotate", N(0)),
                          Dflt(element, "shadow", Null),
                          Dflt(element, "glow", Null) >>)>>))
          [] type = sImage ->
               Done(AddCall(slide, "addImage",
                 <<Obj(<< <<"data", Get(element, "data")>>,
                          Dflt(element, "x", N(1)), Dflt(element, "y", N(1)),
                          Dflt(element, "w", N(6)), Dflt(element, "h", N(4)),
                          Dflt(element, "rotate", N(0)),
                          Dflt(element, "transparency", N(0)),
                          Dflt(element, "rounding", Bool(FALSE)) >>)>>))
          [] type = sShape ->
               Done(AddCall(slide, "addShape",
                 <<Or(Get(element, "shape"), sRECTANGLE),
                   Obj(<< Dflt(element, "x", N(1)), Dflt(element, "y", N(1)),
                          Dflt(element, "w", N(2)), Dflt(element, "h", N(2)),
                          Dflt(element, "fill", Obj(<< <<"color", s0066CC>> >>)),
                          Dflt(element, "line",
                               Obj(<< <<"color", s000000>>, <<"width", N(1)>> >>)),
                          Dflt(element, "rotate", N(0)) >>)>>))
          [] type = sTable ->
               Done(AddCall(slide, "addTable",
                 <<Or(Get(element, "data"), Arr(<<>>)),
                   Obj(<< Dflt(element, "x", Num(50)), Dflt(element, "y", Num(150)),
                          Dflt(element, "w", N(9)), Dflt(element, "h", N(4)),
                          Dflt(element, "colW", Null), Dflt(element, "rowH", Null),
                          Dflt(element, "border",
                               Obj(<< <<"type", sSolid>>, <<"color", s666666>>,
                                      <<"pt", N(1)>> >>)),
                          Dflt(element, "fill", Obj(<< <<"color", sF7F7F7>> >>)),
                          Dflt(element, "fontSize", N(12)),
                          Dflt(element, "color", s000000) >>)>>))
          [] type = sChart ->
               Done(AddCall(slide, "addChart",
                 <<Or(Get(element, "chartType"), sCOLUMN),
                   Or(Get(element, "data"), Arr(<<>>)),
                   Obj(<< Dflt(element, "x", N(1)), Dflt(element, "y", N(1)),
                          Dflt(element, "w", N(8)), Dflt(element, "h", N(5)),
                          Dflt(element, "title", EmptyStr),
                          Dflt(element, "showTitle", Bool(FALSE)),
                          Dflt(element, "showLegend", Bool(TRUE)),
                          Dflt(element, "legendPos", sR),
                          Dflt(element, "showPercent", Bool(FALSE)),
                          Dflt(element, "dataLabelColor", s000000),
                          Dflt(element, "dataLabelFontSize", N(12)) >>)>>))
          [] type = sMedia ->
               IF Get(element, "mediaType") = sVideo
               THEN Done(AddCall(slide, "addMedia",
                      <<Obj(<< <<"type", sVideo>>, <<"data", Get(element, "data")>>,
                               Dflt(element, "x", N(1)), Dflt(element, "y", N(1)),
                               Dflt(element, "w", N(6)), Dflt(element, "h", N(4)) >>)>>))
               ELSE IF Get(element, "mediaType") = sAudio
               THEN Done(AddCall(slide, "addMedia",
                      <<Obj(<< <<"type", sAudio>>, <<"data", Get(element, "data")>>,
                               Dflt(element, "x", N(1)), Dflt(element, "y", N(1)) >>)>>))
               ELSE Done(slide)
          [] type = sNotes ->
               Done(AddCall(slide, "addNotes", <<Or(Get(element, "text"), EmptyStr)>>))
          [] OTHER -> Done(slide)

----------------------------------------------------------------------------
(* String conversion, as Array.prototype.join applies it to its elements   *)

RECURSIVE NatToStr(_)
NatToStr(n) ==
  IF n < 10 THEN <<Digits[n + 1]>>
  ELSE NatToStr(n \div 10) \o <<Digits[(n % 10) + 1]>>

NumToStr(n) ==
  LET a    == IF n < 0 THEN 0 - n ELSE n
      frac == a % 100
      tail == IF frac = 0 THEN <<>>
              ELSE IF frac % 10 = 0 THEN <<".", Digits[(frac \div 10) + 1]>>
              ELSE <<".", Digits[(frac \div 10) + 1], Digits[(frac % 10) + 1]>>
  IN  (IF n < 0 THEN <<"-">> ELSE <<>>) \o NatToStr(a \div 100) \o tail

RECURSIVE ToStr(_)
RECURSIVE JoinValues(_, _)
\* String(v)
ToStr(v) ==
  CASE v.t = "string" -> v.s
    [] v.t = "number" -> NumToStr(v.n)
    [] v.t = "nan" -> <<"N", "a", "N">>
    [] v.t = "boolean" ->
         IF v.b THEN <<"t", "r", "u", "e">> ELSE <<"f", "a", "l", "s", "e">>
    [] v.t = "array" -> JoinValues(v.a, <<",">>)
    [] v.t = "object" -> sObjectObject.s
    [] v.t = "null" -> <<"n", "u", "l", "l">>
    [] OTHER -> <<"u", "n", "d", "e", "f", "i", "n", "e", "d">>

\* arr.join(sep): null and undefined elements become the empty string
JoinValues(a, sep) ==
  Join([i \in 1..Len(a) |-> IF Nullish(a[i]) THEN <<>> ELSE ToStr(a[i])], sep)

\* .split('\n').map(line => line.trim()).filter(line => line.length > 0)
Lines(s) ==
  LET trimmed == [i \in 1..Len(Split(s, "\n")) |-> Trim(Split(s, "\n")[i])]
  IN  SelectSeq(trimmed, LAMBDA l : l # <<>>)

StrArr(ss) == Arr([i \in 1..Len(ss) |-> Str(ss[i])])

----------------------------------------------------------------------------
(* The routes.  Each is one handler of one of the services of the          *)
(* repository; its service decides how the body is parsed and what happens *)
(* to an error no handler catches.                                         *)

Routes ==
  { "part_000 /generate-pptx", "part_001 /generate-pptx",
    "part_002 /generate-pptx", "part_003 /generate",
    "index.js:1954 /generate", "index.js:1996 /generate",
    "/api/presentation/from-json", "/api/presentation/advanced",
    "index.js:1274 /api/presentation/create" }

\* the service of index.js lines 1-1184: express.json with a verify callback
\* and the global error handler of line 1127
RailwayRoutes ==
  {"/api/presentation/from-json", "/api/presentation/advanced",
   "/api/presentation/simple", "/api/presentation/validate-json"}

\* the service of index.js lines 1186-1862: express.json and the error
\* middleware of line 1843
FullRoutes == {"index.js:1274 /api/presentation/create"}

\* handlers written without any try/catch around the construction
UnguardedBuild ==
  {"part_003 /generate", "index.js:1954 /generate", "index.js:1996 /generate"}

\* handlers whose await of the encoder is outside any try/catch
UnguardedEncode == {"part_003 /generate", "index.js:1996 /generate"}

\* handlers that validate `slides` before building
ValidatingRoutes ==
  {"part_003 /generate", "index.js:1954 /generate", "index.js:1996 /generate"}

----------------------------------------------------------------------------
(* Responses *)

NoResponse == [status |-> 0, kind |-> "none", body |-> <<>>]

Artifact == [status |-> 200, kind |-> "artifact", body |-> <<>>]

\* a JSON body is the tuple of its keys, each with where its value comes from
Json(status, body) == [status |-> status, kind |-> "json", body |-> body]

Html(status) == [status |-> status, kind |-> "html", body |-> <<>>]

\* res.status(500).json(...) of the handler's catch block
CatchResponse(r) ==
  CASE r \in {"part_000 /generate-pptx", "part_001 /generate-pptx"} ->
         Json(500, << <<"error", "literal">>, <<"details", "err.message">> >>)
    [] r = "part_002 /generate-pptx" ->
         Json(500, << <<"error", "err.message">> >>)
    [] r = "index.js:1954 /generate" ->
         Json(500, << <<"error", "literal">> >>)
    [] r = "/api/presentation/from-json" ->
         Json(500, << <<"error", "literal">>, <<"message", "err.message">>,
                      <<"details", "err.stack if NODE_ENV is development">>,
                      <<"timestamp", "now">> >>)
    [] r = "/api/slide/image" ->
         Json(500, << <<"error", "literal">>, <<"message", "err.message">> >>)
    [] r = "/api/presentation/simple" ->
         Json(500, << <<"error", "literal">>, <<"message", "err.message">>,
                      <<"timestamp", "now">> >>)
    [] OTHER ->
         Json(500, << <<"error", "literal">>, <<"details", "err.message">> >>)

\* res.status(400).json({ error: ... }) of the validating handlers
ValidationResponse == Json(400, << <<"error", "literal">> >>)

----------------------------------------------------------------------------
(* The presentation object and the per-slide code of each handler          *)

\* new PptxGenJS()
NewPptx == [created |-> TRUE, meta |-> <<>>, slides |-> <<>>]

NoPptx == [created |-> FALSE, meta |-> <<>>, slides |-> <<>>]

\* pptx.<key> = value
SetMeta(p, key, value) == [p EXCEPT !.meta = Append(@, <<key, value>>)]

\* pptx.addSlide()
AddSlide(p) == [p EXCEPT !.slides = Append(@, NewSlide)]

LastSlide(p) == p.slides[Len(p.slides)]

SetLastSlide(p, slide) == [p EXCEPT !.slides[Len(p.slides)] = slide]

\* a draw call on the slide added last
DrawLast(p, fn, args) == SetLastSlide(p, AddCall(LastSlide(p), fn, args))

\* const { k = dflt } = req.body
Default(v, dflt) == IF v.t = "undefined" THEN dflt ELSE v

\* the outcome of the per-slide code before its elements are visited: the
\* document, the elements to visit, what was logged, whether it threw
SlideIter(p, elems) == [pptx |-> p, iter |-> elems, logs |-> <<>>, thrown |-> FALSE]

SlideLogged(p, level) == [pptx |-> p, iter |-> <<>>, logs |-> <<level>>, thrown |-> FALSE]

SlideThrown(p) == [pptx |-> p, iter |-> <<>>, logs |-> <<>>, thrown |-> TRUE]

\* the characters of a string, as for...of visits them
Chars(s) == [i \in 1..Len(s) |-> Str(<<s[i]>>)]

generatePptx_part000_slide(p, slideData) ==
  IF Nullish(slideData) THEN SlideThrown(p)
  ELSE IF IsArray(Get(slideData, "elements"))
       THEN SlideIter(AddSlide(p), Get(slideData, "elements").a)
       ELSE SlideLogged(AddSlide(p), "warn")

\* (lines 67-70 copy slideData.notes into slideData.options, an object of
\* the request that nothing reads afterwards: the slide is not touched)
generatePptx_part001_slide(p, slideData) ==
  IF Nullish(slideData) THEN SlideThrown(AddSlide(p))
  ELSE
    LET bg == Get(slideData, "background")
        p1 == IF Truthy(bg)
              THEN SetLastSlide(AddSlide(p),
                     [NewSlide EXCEPT !.background = Obj(<< <<"fill", bg>> >>)])
              ELSE AddSlide(p)
    IN  IF IsArray(Get(slideData, "objects"))
        THEN SlideIter(p1, Get(slideData, "objects").a)
        ELSE SlideLogged(p1, "warn")

generatePptx_part002_slide(p, slideData) ==
  IF Nullish(slideData) THEN SlideThrown(AddSlide(p))
  ELSE
    LET bkgd == Or(OptGet(Get(slideData, "options"), "bkgd"),
                   OptGet(Get(slideData, "background"), "color"))
        p1   == IF Truthy(bkgd)
                THEN SetLastSlide(AddSlide(p),
                       [NewSlide EXCEPT !.background = Obj(<< <<"fill", bkgd>> >>)])
                ELSE AddSlide(p)
        elements == Or(Get(slideData, "elements"),
                       Or(Get(slideData, "objects"), Arr(<<>>)))
    IN  IF IsArray(elements) THEN SlideIter(p1, elements.a) ELSE SlideThrown(p1)

\* slideData.objects.map(obj => obj.text?.value || '') throws
BodyTextThrows(slideData) ==
  \/ ~IsArray(Get(slideData, "objects"))
  \/ \E i \in 1..Len(Get(slideData, "objects").a) :
       Nullish(Get(slideData, "objects").a[i])

\* slideData.objects.map(obj => obj.text?.value || '').join('\n')
\*   .split('\n').map(line => line.trim()).filter(line => line.length > 0)
BodyText(slideData) ==
  LET objects == Get(slideData, "objects").a
      values  == [i \in 1..Len(objects) |->
                   Or(OptGet(Get(objects[i], "text"), "value"), EmptyStr)]
  IN  Lines(JoinValues(values, <<"\n">>))

generate_part003_slide(p, slideData) ==
  IF Nullish(slideData) THEN SlideThrown(AddSlide(p))
  ELSE
    LET p1 == DrawLast(AddSlide(p), "addText",
                <<Get(slideData, "title"),
                  Obj(<< <<"x", Num(50)>>, <<"y", Num(30)>>,
                         <<"fontSize", N(24)>>, <<"bold", Bool(TRUE)>> >>)>>)
    IN  IF BodyTextThrows(slideData) THEN SlideThrown(p1)
        ELSE IF BodyText(slideData) # <<>>
        THEN SlideIter(DrawLast(p1, "addText",
               <<StrArr(BodyText(slideData)),
                 Obj(<< <<"x", Num(70)>>, <<"y", Num(120)>>, <<"fontSize", N(18)>>,
                        <<"bullet", Bool(TRUE)>>, <<"color", s363636>>,
                        <<"lineSpacingMultiple", Num(120)>> >>)>>), <<>>)
        ELSE SlideIter(p1, <<>>)

generate_index1996_slide(p, slideData) ==
  IF Nullish(slideData) THEN SlideThrown(AddSlide(p))
  ELSE
    LET p1 == DrawLast(AddSlide(p), "addText",
                <<Get(slideData, "title"),
                  Obj(<< <<"x", Num(50)>>, <<"y", Num(30)>>,
                         <<"fontSize", N(24)>>, <<"bold", Bool(TRUE)>> >>)>>)
    IN  IF BodyTextThrows(slideData) THEN SlideThrown(p1)
        ELSE SlideIter(DrawLast(p1, "addText",
               <<StrArr(BodyText(slideData)),
                 Obj(<< <<"x", Num(50)>>, <<"y", Num(120)>>, <<"fontSize", N(18)>>,
                        <<"bullet", Bool(TRUE)>>,
                        <<"lineSpacingMultiple", Num(120)>> >>)>>), <<>>)

generate_index1954_slide(p, slideData) ==
  IF Nullish(slideData) THEN SlideThrown(p)
  ELSE
    LET bullets == Get(slideData, "bullets")
        p1 == DrawLast(AddSlide(p), "addText",
                <<Or(Get(slideData, "title"), sNoTitle),
                  Obj(<< <<"x", N(1)>>, <<"y", Num(50)>>,
                         <<"fontSize", N(24)>>, <<"bold", Bool(TRUE)>> >>)>>)
    IN  IF Truthy(bullets) /\ IsArray(bullets)
        THEN SlideIter(DrawLast(p1, "addText",
               <<Str(JoinValues(bullets.a, <<"\n">>)),
                 Obj(<< <<"x", N(1)>>, <<"y", Num(150)>>, <<"fontSize", N(18)>> >>)>>),
               <<>>)
        ELSE SlideIter(p1, <<>>)

\* the slide added by catch (slideError): two text boxes
ErrorSlide(slideIndex) ==
  [NewSlide EXCEPT !.draws =
     << Call("addText",
          <<Str(<<"E", "r", "r", "o", "r", " ", "o", "n", " ", "S", "l", "i", "d", "e", " ">>
                \o NatToStr(slideIndex)),
            Obj(<< <<"x", N(1)>>, <<"y", N(1)>>, <<"w", N(8)>>, <<"h", N(1)>>,
                   <<"fontSize", N(20)>>,
                   <<"color", Str(<<"F", "F", "0", "0", "0", "0">>)>>,
                   <<"bold", Bool(TRUE)>> >>)>>),
        Call("addText",
          <<Str(<<"s", "l", "i", "d", "e", "E", "r", "r", "o", "r", ".",
                  "m", "e", "s", "s", "a", "g", "e">>),
            Obj(<< <<"x", N(1)>>, <<"y", N(2)>>, <<"w", N(8)>>, <<"h", N(4)>>,
                   <<"fontSize", N(14)>>, <<"color", s666666>> >>)>>) >>]

\* slideIndex counts from 1 here, as the text "Error on Slide n" does
fromJson_slide(p, slideData, slideIndex) ==
  IF Nullish(slideData)
  THEN SlideLogged([AddSlide(p) EXCEPT !.slides = Append(@, ErrorSlide(slideIndex))],
                   "error")
  ELSE IF Truthy(Get(slideData, "objects")) /\ IsArray(Get(slideData, "objects"))
       THEN SlideIter(AddSlide(p), Get(slideData, "objects").a)
       ELSE SlideIter(AddSlide(p), <<>>)

advanced_slide(p, slideData) ==
  IF Nullish(slideData) THEN SlideThrown(p)
  ELSE
    LET bg == Get(slideData, "background")
        background ==
          IF ~Truthy(bg) THEN Undef
          ELSE IF Truthy(Get(bg, "color"))
               THEN Obj(<< <<"color", Get(bg, "color")>> >>)
          ELSE IF Truthy(Get(bg, "image"))
               THEN Obj(<< <<"data", Get(bg, "image")>> >>)
          ELSE Undef
        p1 == SetLastSlide(AddSlide(p), [NewSlide EXCEPT !.background = background])
        elements == Get(slideData, "elements")
    IN  IF ~Truthy(elements) THEN SlideIter(p1, <<>>)
        ELSE IF IsArray(elements) THEN SlideIter(p1, elements.a)
        ELSE IF IsString(elements) THEN SlideIter(p1, Chars(elements.s))
        ELSE SlideThrown(p1)

create_index1274_slide(p, slideData) ==
  IF Nullish(slideData) THEN SlideThrown(AddSlide(p))
  ELSE
    LET p1 == IF Truthy(Get(slideData, "title"))
              THEN DrawLast(AddSlide(p), "addText",
                     <<Get(slideData, "title"),
                       Obj(<< <<"x", Num(50)>>, <<"y", Num(50)>>, <<"w", N(9)>>,
                              <<"h", N(1)>>, <<"fontSize", N(24)>>,
                              <<"bold", Bool(TRUE)>>, <<"color", s333333>> >>)>>)
              ELSE AddSlide(p)
        p2 == IF Truthy(Get(slideData, "content"))
              THEN DrawLast(p1, "addText",
                     <<Get(slideData, "content"),
                       Obj(<< <<"x", Num(50)>>, <<"y", Num(150)>>, <<"w", N(9)>>,
                              <<"h", N(4)>>, <<"fontSize", N(16)>>,
                              <<"color", s666666>> >>)>>)
              ELSE p1
    IN  SlideIter(p2, <<>>)

\* POST /api/presentation/simple: the callback of slides.forEach, a try
\* whose catch logs a warning
simple_slide(p, slideData) ==
  IF Nullish(slideData) THEN SlideLogged(AddSlide(p), "warn")
  ELSE
    LET title == Get(slideData, "title")
        p1 == IF Truthy(title)
              THEN DrawLast(AddSlide(p), "addText",
                     <<title,
                       Obj(<< <<"x", Num(50)>>, <<"y", Num(50)>>, <<"w", N(9)>>,
                              <<"h", N(1)>>, <<"fontSize", N(20)>>,
                              <<"bold", Bool(TRUE)>>, <<"color", s1f4e79>> >>)>>)
              ELSE AddSlide(p)
        p2 == IF Truthy(Get(slideData, "content"))
              THEN DrawLast(p1, "addText",
                     <<Get(slideData, "content"),
                       Obj(<< <<"x", Num(50)>>,
                              <<"y", IF Truthy(title) THEN Num(150) ELSE Num(50)>>,
                              <<"w", N(9)>>,
                              <<"h", IF Truthy(title) THEN Num(450) ELSE Num(550)>>,
                              <<"fontSize", N(14)>>, <<"color", s444444>> >>)>>)
              ELSE p1
    IN  SlideIter(p2, <<>>)

\* the per-slide code of route r
SlideStep(r, p, slideData, slideIndex) ==
  CASE r = "part_000 /generate-pptx" -> generatePptx_part000_slide(p, slideData)
    [] r = "part_001 /generate-pptx" -> generatePptx_part001_slide(p, slideData)
    [] r = "part_002 /generate-pptx" -> generatePptx_part002_slide(p, slideData)
    [] r = "part_003 /generate" -> generate_part003_slide(p, slideData)
    [] r = "index.js:1954 /generate" -> generate_index1954_slide(p, slideData)
    [] r = "index.js:1996 /generate" -> generate_index1996_slide(p, slideData)
    [] r = "/api/presentation/from-json" -> fromJson_slide(p, slideData, slideIndex)
    [] r = "/api/presentation/advanced" -> advanced_slide(p, slideData)
    [] r = "/api/presentation/simple" -> simple_slide(p, slideData)
    [] OTHER -> create_index1274_slide(p, slideData)

\* the per-element code of route r (the routes whose slides have elements)
ElementStep(r, slide, el) ==
  CASE r = "part_000 /generate-pptx" -> applySlideContent_part000(slide, el)
    [] r = "part_001 /generate-pptx" -> applySlideContent_part001(slide, el)
    [] r = "part_002 /generate-pptx" -> applyElement(slide, el)
    [] r = "/api/presentation/from-json" -> fromJson_object(slide, el)
    [] OTHER -> advanced_element(slide, el)

----------------------------------------------------------------------------
(* The prologue of each handler: what it reads from the body, the          *)
(* presentation it creates, and whether it goes on to visit the slides     *)
(* ("iterate"), throws ("throw") or rejects the request ("invalid").       *)

Started(p, next) == [pptx |-> p, next |-> next]

\* slides.forEach(...) throws unless slides is an array
ForEachOutcome(slides) == IF IsArray(slides) THEN "iterate" ELSE "throw"

generatePptx_part000_start(body) ==
  LET slides == Default(Get(body, "slides"), Arr(<<>>))
      layout == Get(body, "layout")
  IN  Started(IF Truthy(layout) THEN SetMeta(NewPptx, "layout", layout) ELSE NewPptx,
              ForEachOutcome(slides))

generatePptx_part001_start(body) ==
  LET slides == Default(Get(body, "slides"), Arr(<<>>))
      layout == Get(body, "layout")
  IN  Started(IF Truthy(layout) THEN SetMeta(NewPptx, "layout", layout) ELSE NewPptx,
              ForEachOutcome(slides))

generatePptx_part002_start(input) ==
  LET p1 == IF Truthy(Get(input, "title"))
            THEN SetMeta(NewPptx, "author", Get(input, "title")) ELSE NewPptx
      p2 == IF Truthy(Get(input, "author"))
            THEN SetMeta(p1, "author", Get(input, "author")) ELSE p1
      p3 == IF Truthy(Get(input, "subject"))
            THEN SetMeta(p2, "subject", Get(input, "subject")) ELSE p2
  IN  Started(p3, ForEachOutcome(Get(input, "slides")))

\* if (!slides || !Array.isArray(slides)) return res.status(400).json(...)
generate_start(body) ==
  LET slides == Get(body, "slides")
  IN  IF ~Truthy(slides) \/ ~IsArray(slides) THEN Started(NoPptx, "invalid")
      ELSE Started(NewPptx, "iterate")

fromJson_start(body) ==
  LET slides == Default(Get(body, "slides"), Arr(<<>>))
  IN  IF Nullish(slides) THEN Started(NoPptx, "throw")
      ELSE Started(SetMeta(SetMeta(SetMeta(NewPptx, "author", sJSONConverter),
                                   "title", sConvertedPresentation),
                           "layout", sLAYOUT16x9),
                   ForEachOutcome(slides))

advanced_start(body) ==
  LET title  == Default(Get(body, "title"), sAdvancedPresentation)
      slides == Default(Get(body, "slides"), Arr(<<>>))
      master == Default(Get(body, "masterSlide"), Null)
      layout == Default(Get(body, "layout"), sLAYOUT16x9)
      p1 == SetMeta(SetMeta(SetMeta(SetMeta(SetMeta(NewPptx,
              "author", sPptxGenJSAPI), "company", sRailwayApp), "title", title),
              "subject", sGeneratedViaAPI), "layout", layout)
      p2 == IF Truthy(master)
            THEN SetMeta(p1, "slideMaster",
                   Obj(<< <<"title", Or(Get(master, "name"), sMASTERSLIDE)>>,
                          <<"background", Or(Get(master, "background"),
                                             Obj(<< <<"color", sFFFFFF>> >>))>>,
                          <<"objects", Or(Get(master, "objects"), Arr(<<>>))>> >>))
            ELSE p1
  IN  Started(p2, IF IsArray(slides) \/ IsString(slides) THEN "iterate" ELSE "throw")

create_index1274_start(body) ==
  LET title  == Default(Get(body, "title"), sMyPresentation)
      slides == Default(Get(body, "slides"), Arr(<<>>))
      p1 == SetMeta(SetMeta(SetMeta(NewPptx, "author", sPptxGenJSAPI),
                            "company", sRailwayApp), "title", title)
      p2 == DrawLast(AddSlide(p1), "addText",
              <<title,
                Obj(<< <<"x", N(1)>>, <<"y", N(1)>>, <<"w", N(8)>>, <<"h", N(2)>>,
                       <<"fontSize", N(32)>>, <<"bold", Bool(TRUE)>>,
                       <<"color", s0066CC>>, <<"align", sCenter>> >>)>>)
  IN  Started(p2, ForEachOutcome(slides))

\* a handler that would add no title slide
simple_start_untitled(body) ==
  LET title  == Default(Get(body, "title"), sMyPresentation)
      slides == Default(Get(body, "slides"), Arr(<<>>))
      author == Default(Get(body, "author"), sAPIUser)
  IN  IF Nullish(slides) THEN Started(NoPptx, "throw")
      ELSE Started(SetMeta(SetMeta(SetMeta(NewPptx, "author", author),
                                   "title", title), "layout", sLAYOUT16x9),
                   ForEachOutcome(slides))

\* POST /api/presentation/simple up to slides.forEach: slides.length of
\* line 388 throws for null, then the document and its title slide
simple_start(body) ==
  LET title  == Default(Get(body, "title"), sMyPresentation)
      slides == Default(Get(body, "slides"), Arr(<<>>))
      author == Default(Get(body, "author"), sAPIUser)
      p1 == SetMeta(SetMeta(SetMeta(NewPptx, "author", author), "title", title),
                    "layout", sLAYOUT16x9)
      p2 == DrawLast(AddSlide(p1), "addText",
              <<title,
                Obj(<< <<"x", N(1)>>, <<"y", Num(250)>>, <<"w", N(8)>>, <<"h", Num(150)>>,
                       <<"fontSize", N(28)>>, <<"bold", Bool(TRUE)>>,
                       <<"color", s363636>>, <<"align", sCenter>> >>)>>)
  IN  IF Nullish(slides) THEN Started(NoPptx, "throw")
      ELSE Started(p2, ForEachOutcome(slides))

HandlerStart(r, body) ==
  CASE r = "part_000 /generate-pptx" -> generatePptx_part000_start(body)
    [] r = "part_001 /generate-pptx" -> generatePptx_part001_start(body)
    [] r = "part_002 /generate-pptx" -> generatePptx_part002_start(body)
    [] r \in ValidatingRoutes -> generate_start(body)
    [] r = "/api/presentation/from-json" -> fromJson_start(body)
    [] r = "/api/presentation/advanced" -> advanced_start(body)
    [] r = "/api/presentation/simple" -> simple_start(body)
    [] OTHER -> create_index1274_start(body)

\* the sequence the handler's loop over `slides` visits
SlideList(body) ==
  LET slides == Default(Get(body, "slides"), Arr(<<>>))
  IN  IF IsArray(slides) THEN slides.a
      ELSE IF IsString(slides) THEN Chars(slides.s)
      ELSE <<>>

\* the elements the handler of r visits on slideData
ElementList(r, slideData) == SlideStep(r, NewPptx, slideData, 1).iter


----------------------------------------------------------------------------
(* The headers of the artifact of the handlers that name the file after    *)
(* the request's title                                                     *)

\* the handlers whose Content-Disposition carries the title
TitledRoutes == {"/api/presentation/advanced", "index.js:1274 /api/presentation/create"}

\* const { title = '...' } = req.body
TitleOf(r, body) ==
  Default(Get(body, "title"),
          IF r = "/api/presentation/advanced" THEN sAdvancedPresentation
          ELSE sMyPresentation)

\* `attachment; filename="${title}.pptx"`
ContentDisposition(r, body) ==
  <<"a", "t", "t", "a", "c", "h", "m", "e", "n", "t", ";", " ",
    "f", "i", "l", "e", "n", "a", "m", "e", "=", "\"">>
  \o ToStr(TitleOf(r, body))
  \o <<".", "p", "p", "t", "x", "\"">>

----------------------------------------------------------------------------
(* The requests of the model: a body that is not JSON, or a JSON object    *)
(* whose `slides` is absent, not an array, or an array of at most          *)
(* MaxSlides entries carrying at most MaxElems elements in all.            *)

Hi == Str(<<"H", "i">>)

Elements ==
  { Null,
    Obj(<< <<"foo", N(1)>> >>),
    Obj(<< <<"text", Hi>> >>),
    Obj(<< <<"text", Obj(<< <<"text", Hi>> >>)>> >>),
    Obj(<< <<"text", Obj(<< <<"value", Hi>> >>)>> >>),
    Obj(<< <<"text", Arr(<< Obj(<< <<"text", Str(<<"a">>)>> >>) >>)>> >>),
    Obj(<< <<"table", EmptyObj>> >>),
    Obj(<< <<"table", Obj(<< <<"rows",
             Arr(<< Arr(<< Obj(<< <<"text", Str(<<"c">>)>> >>) >>) >>)>> >>)>> >>),
    Obj(<< <<"rect", Obj(<< <<"x", N(1)>>, <<"y", N(1)>>, <<"w", N(2)>>, <<"h", N(2)>> >>)>>,
           <<"text", Obj(<< <<"text", Hi>> >>)>> >>),
    Obj(<< <<"text", Hi>>, <<"shape", Obj(<< <<"type", sRect>> >>)>> >>),
    Obj(<< <<"type", sText>>, <<"options", Obj(<< <<"text", Hi>> >>)>> >>),
    Obj(<< <<"type", Str(<<"f", "o", "o">>)>>, <<"options", EmptyObj>> >>) }

\* the elements that decide whether a dispatcher skips what it does not
\* know: each is drawn by one of the two applySlideContent and unknown to
\* the other, or unknown to both, or null
DispatchElements ==
  { Null,
    Obj(<< <<"foo", N(1)>> >>),
    Obj(<< <<"type", Str(<<"f", "o", "o">>)>>, <<"options", Obj(<< <<"a", N(1)>> >>)>> >>),
    Obj(<< <<"type", sText>>, <<"options", Obj(<< <<"text", Hi>> >>)>> >>),
    Obj(<< <<"text", Obj(<< <<"text", Hi>> >>)>> >>) }

\* a slide that lists l both as `objects` and as `elements`
SlideOf(l) == Obj(<< <<"objects", Arr(l)>>, <<"elements", Arr(l)>> >>)

\* a null entry, a slide with no list at all, a slide whose list is a string
BareSlides ==
  { Null, EmptyObj,
    Obj(<< <<"objects", Str(<<"x">>)>>, <<"elements", Str(<<"x">>)>> >>) }

\* the slides that carry exactly c elements of E
SlidesWith(E, c) ==
  IF c = 0 THEN BareSlides \cup {SlideOf(<<>>)}
  ELSE {SlideOf([i \in 1..c |-> l[i]]) : l \in [1..c -> E]}

RECURSIVE Sum(_)
Sum(cs) == IF cs = <<>> THEN 0 ELSE cs[1] + Sum(Tail(cs))

\* how at most n elements spread over len slides
Counts(len, n) == {cs \in [1..len -> 0..n] : Sum(cs) <= n}

RECURSIVE SlidesCarrying(_, _)
\* the sequences of slides whose i-th slide carries cs[i] elements of E
SlidesCarrying(E, cs) ==
  IF cs = <<>> THEN {<<>>}
  ELSE {<<s>> \o rest : s \in SlidesWith(E, cs[1]),
                        rest \in SlidesCarrying(E, Tail(cs))}

\* the body whose `slides` is the array ss
ArrayRequest(ss) == [kind |-> "json", body |-> Obj(<< <<"slides", Arr(ss)>> >>)]

\* a body that is not JSON, and the bodies whose `slides` is absent or is
\* a string, a number, an object or null
OtherRequests ==
  { [kind |-> "malformed", body |-> Undef], [kind |-> "json", body |-> EmptyObj] }
  \cup { [kind |-> "json", body |-> Obj(<< <<"slides", v>> >>)] :
           v \in {Str(<<"a", "b">>), N(5), EmptyObj, Null} }

s50pct == Str(<<"5", "0", "%">>)

\* elements whose geometry is a percentage of the canvas: a rectangle and a
\* paragraph-array text with x (and w) in percent next to absolute fields
GeometryElements ==
  { Obj(<< <<"rect", Obj(<< <<"x", s50pct>>, <<"y", N(1)>>,
                            <<"w", N(2)>>, <<"h", N(2)>> >>)>> >>),
    Obj(<< <<"text", Arr(<< Obj(<< <<"text", Str(<<"a">>)>> >>) >>)>>,
           <<"options", Obj(<< <<"x", s50pct>>, <<"y", N(1)>>,
                               <<"w", s50pct>>, <<"h", N(1)>> >>)>> >>) }

sAbc == Str(<<"a", "b", "c">>)

\* elements whose x is a string that is not a number: a paragraph-array
\* text with options, and a text object with options
MalformedElements ==
  { Obj(<< <<"text", Arr(<< Obj(<< <<"text", Str(<<"a">>)>> >>) >>)>>,
           <<"options", Obj(<< <<"x", sAbc>>, <<"y", N(1)>> >>)>> >>),
    Obj(<< <<"text", Obj(<< <<"text", Hi>>,
                            <<"options", Obj(<< <<"x", sAbc>>, <<"y", N(1)>> >>)>> >>)>> >>) }

sFF0000 == Str(<<"F", "F", "0", "0", "0", "0">>)

\* a rectangle at the origin that covers the whole canvas
FullBleedRect ==
  Obj(<< <<"rect", Obj(<< <<"x", N(0)>>, <<"y", N(0)>>,
                          <<"w", s100pct>>, <<"h", s100pct>>,
                          <<"fill", Obj(<< <<"color", sFF0000>> >>)>> >>)>> >>)

\* paragraph-array texts whose container asks for bullets: a fragment that
\* starts with a bullet glyph (U+2022, written "*") and ends with a space,
\* and a fragment that
\* sets bullet to false itself
BulletElements ==
  { Obj(<< <<"text", Arr(<< Obj(<< <<"text", Str(<<"*", "a", " ">>)>> >>) >>)>>,
           <<"options", Obj(<< <<"bullet", Bool(TRUE)>> >>)>> >>),
    Obj(<< <<"text", Arr(<< Obj(<< <<"text", Str(<<"a">>)>>,
                                   <<"options", Obj(<< <<"bullet", Bool(FALSE)>> >>)>> >>) >>)>>,
           <<"options", Obj(<< <<"bullet", Bool(TRUE)>> >>)>> >>) }

\* the elements sent alone, as the only element of a one-slide request
\* a rectangle that starts at the middle of the canvas and is one inch high
OffsetRect ==
  Obj(<< <<"rect", Obj(<< <<"x", s50pct>>, <<"y", N(0)>>,
                          <<"w", N(10)>>, <<"h", N(1)>>,
                          <<"fill", Obj(<< <<"color", sFF0000>> >>)>> >>)>> >>)

\* a chart element that supplies x = 0, showLegend = false and title = ""
FalsyChart ==
  Obj(<< <<"type", sChart>>, <<"x", N(0)>>, <<"showLegend", Bool(FALSE)>>,
         <<"title", EmptyStr>> >>)

DetailElements ==
  GeometryElements \cup MalformedElements \cup {FullBleedRect, OffsetRect}
    \cup BulletElements \cup {FalsyChart}

sT == Str(<<"T">>)

sA == Str(<<"A">>)

sLAYOUT4x3 == Str(<<"L", "A", "Y", "O", "U", "T", "_", "4", "x", "3">>)

\* the top-level metadata of a request: a title alone, a title with an
\* author and a layout, and a title with a double quote in it
Metadata ==
  { << <<"title", sT>> >>,
    << <<"title", sT>>, <<"author", sA>>, <<"layout", sLAYOUT4x3>> >>,
    << <<"title", Str(<<"a", "\"", "b">>)>> >> }

\* the body with the fields of meta and one slide without elements
MetadataRequest(meta) ==
  [kind |-> "json",
   body |-> Obj(meta \o << <<"slides", Arr(<< SlideOf(<<>>) >>)>> >>)]

\* a slide with speaker notes and one text
SlideWithNotes ==
  Obj(<< <<"notes", Str(<<"n">>)>>,
         <<"objects", Arr(<< Obj(<< <<"text", Obj(<< <<"text", Hi>> >>)>> >>) >>)>> >>)

\* the one-slide requests whose slide carries one of the DetailElements, the
\* requests with metadata, and the request of a slide with notes
DetailRequests ==
  { ArrayRequest(<< SlideOf(<<e>>) >>) : e \in DetailElements }
  \cup { MetadataRequest(meta) : meta \in Metadata }
  \cup { ArrayRequest(<< SlideWithNotes >>) }

----------------------------------------------------------------------------
(* The temporary files of POST /generate-pptx of part_002: now is          *)
(* Date.now(), files maps a millisecond t to the request whose document    *)
(* /tmp/generated-t.pptx holds (0: no such file), jobs is where each       *)
(* request in flight stands, the file it chose and the document it sent.   *)

Requests == 1..MaxRequests

NoJob == [pc |-> "build", path |-> 0, got |-> 0]

\* no request is in the part of the handler that uses a temporary file
NoTempFiles ==
  /\ now = 0
  /\ files = [t \in 0..MaxClock |-> 0]
  /\ jobs = [i \in Requests |-> NoJob]

----------------------------------------------------------------------------
(* The state machine of one request *)

\* a request to one of routes: one of others, or a body whose `slides` is
\* an array of at most k slides carrying at most n elements of E in all
InitOver(routes, others, E, k, n) ==
  /\ route \in routes
  /\ \/ req \in others
     \/ \E len \in 0..k : \E cs \in Counts(len, n) :
          \E ss \in SlidesCarrying(E, cs) : req = ArrayRequest(ss)
  /\ pc = IF route \in RailwayRoutes THEN "verify" ELSE "parse"
  /\ pptx = NoPptx
  /\ si = 0
  /\ oi = 0
  /\ resp = NoResponse
  /\ sends = 0
  /\ log = <<>>
  /\ err = "none"
  /\ NoTempFiles

\* res.status(..).json(..) / res.send(..): the first call answers; a later
\* one throws ERR_HTTP_HEADERS_SENT and changes nothing the client sees
SendResponse(r) ==
  /\ resp' = IF resp.status = 0 THEN r ELSE resp
  /\ sends' = sends + 1

\* where an exception thrown while building goes: the handler's catch
\* block, or out of the async handler as a rejected promise
BuildThrowTarget(r) == IF r \in UnguardedBuild THEN "rejected" ELSE "catch"

EncodeThrowTarget(r) == IF r \in UnguardedEncode THEN "rejected" ELSE "catch"

\* the position after slide i is finished
AfterSlide(i) == IF i < Len(SlideList(req.body)) THEN "slide" ELSE "encode"

\* the verify callback of express.json (index.js 49-56): answers 400 itself
\* and returns, so the parser goes on
JsonVerify ==
  /\ pc = "verify"
  /\ IF req.kind = "malformed"
     THEN SendResponse(Json(400, << <<"error", "literal">> >>))
     ELSE UNCHANGED <<resp, sends>>
  /\ pc' = "parse"
  /\ UNCHANGED <<now, files, jobs, route, req, pptx, si, oi, log, err>>

\* express.json() / bodyParser.json(): a body that does not parse is passed
\* to the error handling as a SyntaxError with status 400
JsonParse ==
  /\ pc = "parse"
  /\ IF req.kind = "malformed"
     THEN pc' = "error" /\ err' = "SyntaxError"
     ELSE pc' = "handler" /\ err' = err
  /\ UNCHANGED <<now, files, jobs, route, req, pptx, si, oi, resp, sends, log>>

\* the handler up to its loop over the slides
Handler ==
  /\ pc = "handler"
  /\ LET s == HandlerStart(route, req.body)
     IN  /\ pptx' = s.pptx
         /\ CASE s.next = "invalid" ->
                   /\ SendResponse(ValidationResponse)
                   /\ pc' = "done" /\ si' = si /\ err' = err
              [] s.next = "throw" ->
                   /\ pc' = BuildThrowTarget(route) /\ err' = "TypeError"
                   /\ UNCHANGED <<resp, sends, si>>
              [] OTHER ->
                   /\ pc' = AfterSlide(0) /\ si' = 1 /\ err' = err
                   /\ UNCHANGED <<resp, sends>>
  /\ UNCHANGED <<now, files, jobs, route, req, oi, log>>

\* one pass of the loop over the slides, up to the slide's first element
ForEachSlide ==
  /\ pc = "slide"
  /\ LET s == SlideStep(route, pptx, SlideList(req.body)[si], si)
     IN  /\ pptx' = s.pptx
         /\ log' = log \o s.logs
         /\ IF s.thrown
            THEN /\ pc' = BuildThrowTarget(route) /\ err' = "TypeError"
                 /\ UNCHANGED <<si, oi>>
            ELSE IF s.iter # <<>>
            THEN pc' = "element" /\ oi' = 1 /\ UNCHANGED <<si, err>>
            ELSE pc' = AfterSlide(si) /\ si' = si + 1 /\ UNCHANGED <<oi, err>>
  /\ UNCHANGED <<now, files, jobs, route, req, resp, sends>>

\* one pass of the loop over the elements of the current slide
ForEachElement ==
  /\ pc = "element"
  /\ LET elems == ElementList(route, SlideList(req.body)[si])
         e     == ElementStep(route, LastSlide(pptx), elems[oi])
     IN  /\ pptx' = SetLastSlide(pptx, e.slide)
         /\ log' = log \o e.logs
         /\ IF e.thrown
            THEN /\ pc' = BuildThrowTarget(route) /\ err' = "TypeError"
                 /\ UNCHANGED <<si, oi>>
            ELSE IF oi < Len(elems)
            THEN pc' = "element" /\ oi' = oi + 1 /\ UNCHANGED <<si, err>>
            ELSE pc' = AfterSlide(si) /\ si' = si + 1 /\ oi' = 0 /\ err' = err
  /\ UNCHANGED <<now, files, jobs, route, req, resp, sends>>

\* await pptx.write(..) / pres.stream() / pptx.writeFile(..): the encoder
\* returns the artifact or throws
Encode ==
  /\ pc = "encode"
  /\ \E ok \in BOOLEAN :
       IF ok THEN pc' = "send" /\ err' = err
       ELSE pc' = EncodeThrowTarget(route) /\ err' = "EncodeError"
  /\ UNCHANGED <<now, files, jobs, route, req, pptx, si, oi, resp, sends, log>>

\* res.setHeader(..); res.send(buffer) / res.download(..)
SendArtifact ==
  /\ pc = "send"
  /\ SendResponse(Artifact)
  /\ pc' = "done"
  /\ UNCHANGED <<now, files, jobs, route, req, pptx, si, oi, log, err>>

\* catch (err) { console.error(..); res.status(500).json(..) }
Catch ==
  /\ pc = "catch"
  /\ SendResponse(CatchResponse(route))
  /\ log' = Append(log, "error")
  /\ pc' = "done"
  /\ UNCHANGED <<now, files, jobs, route, req, pptx, si, oi, err>>

\* the promise of an async handler rejects and nothing in the repository
\* handles it: Express 4 drops it and the request is never answered,
\* Express 5 passes the error to the error handling
UnhandledRejection ==
  /\ pc = "rejected"
  /\ \E forwarded \in BOOLEAN : pc' = IF forwarded THEN "error" ELSE "done"
  /\ UNCHANGED <<now, files, jobs, route, req, pptx, si, oi, resp, sends, log, err>>

\* the global error handler of index.js 1127-1154
GlobalErrorHandler ==
  /\ pc = "error"
  /\ route \in RailwayRoutes
  /\ SendResponse(Json(500, << <<"error", "literal">>,
                               <<"message", "err.message if NODE_ENV is development">>,
                               <<"timestamp", "now">> >>))
  /\ log' = Append(log, "error")
  /\ pc' = "done"
  /\ UNCHANGED <<now, files, jobs, route, req, pptx, si, oi, err>>

\* the error handling middleware of index.js 1843-1849
ErrorMiddleware ==
  /\ pc = "error"
  /\ route \in FullRoutes
  /\ SendResponse(Json(500, << <<"error", "literal">>,
                               <<"details", "err.message if NODE_ENV is development">> >>))
  /\ log' = Append(log, "error")
  /\ pc' = "done"
  /\ UNCHANGED <<now, files, jobs, route, req, pptx, si, oi, err>>

\* the services that register no error handler: Express answers with the
\* error's own status (400 for a body that does not parse), else 500
DefaultErrorHandler ==
  /\ pc = "error"
  /\ route \notin RailwayRoutes \cup FullRoutes
  /\ SendResponse(Html(IF err = "SyntaxError" THEN 400 ELSE 500))
  /\ pc' = "done"
  /\ UNCHANGED <<now, files, jobs, route, req, pptx, si, oi, log, err>>

Init ==
  InitOver(Routes, OtherRequests \cup DetailRequests, Elements, MaxSlides, MaxElems)

Next ==
  \/ JsonVerify
  \/ JsonParse
  \/ Handler
  \/ ForEachSlide
  \/ ForEachElement
  \/ Encode
  \/ SendArtifact
  \/ Catch
  \/ UnhandledRejection
  \/ GlobalErrorHandler
  \/ ErrorMiddleware
  \/ DefaultErrorHandler

Spec == Init /\ [][Next]_vars


----------------------------------------------------------------------------
(* The two applySlideContent dispatchers on their own: requests whose      *)
(* `slides` is an array, sent to the two /generate-pptx services that      *)
(* dispatch with applySlideContent.                                        *)

DispatchRoutes == {"part_000 /generate-pptx", "part_001 /generate-pptx"}

InitDispatch ==
  InitOver(DispatchRoutes, {}, DispatchElements, MaxSlides, MaxDispatchElems)

NextDispatch ==
  \/ JsonParse
  \/ Handler
  \/ ForEachSlide
  \/ ForEachElement
  \/ Encode
  \/ SendArtifact
  \/ Catch

SpecDispatch == InitDispatch /\ [][NextDispatch]_vars

----------------------------------------------------------------------------
(* The specification of the draw order: the requests whose `slides` is an  *)
(* array, sent to the two services that draw a slide's objects in a loop.  *)

OrderRoutes == {"part_001 /generate-pptx", "/api/presentation/from-json"}

\* texts told apart by what they say, a rectangle with a text (two draw
\* calls in from-json, one in part_001), an element nobody draws, and null
OrderElements ==
  { Null,
    Obj(<< <<"foo", N(1)>> >>),
    Obj(<< <<"text", Obj(<< <<"text", Str(<<"A">>)>> >>)>> >>),
    Obj(<< <<"text", Obj(<< <<"text", Str(<<"B">>)>> >>)>> >>),
    Obj(<< <<"rect", Obj(<< <<"x", N(1)>>, <<"y", N(1)>>, <<"w", N(2)>>, <<"h", N(2)>> >>)>>,
           <<"text", Obj(<< <<"text", Str(<<"C">>)>> >>)>> >>) }

InitOrder == InitOver(OrderRoutes, {}, OrderElements, MaxSlides, MaxOrderElems)

NextOrder ==
  \/ JsonVerify
  \/ JsonParse
  \/ Handler
  \/ ForEachSlide
  \/ ForEachElement
  \/ Encode
  \/ SendArtifact
  \/ Catch

SpecOrder == InitOrder /\ [][NextOrder]_vars

----------------------------------------------------------------------------
(* The specification of the temporary files: MaxRequests requests to POST  *)
(* /generate-pptx of part_002 whose documents are built, and whose         *)
(* handlers go on from line 79 interleaved at each await and callback.     *)

\* what the requests of this specification have left behind them
built == <<route, req, pc, pptx, si, oi, resp, sends, log, err>>

\* const fileName = `generated-${Date.now()}.pptx`; pptx.writeFile starts
ComputeFileName(i) ==
  /\ jobs[i].pc = "build"
  /\ jobs' = [jobs EXCEPT ![i] = [pc |-> "writing", path |-> now, got |-> 0]]
  /\ UNCHANGED <<now, files, built>>

\* await pptx.writeFile({ fileName: filePath }): the file holds the
\* document of request i; or the write fails and the catch answers 500,
\* before the file was created or after it was (the file then stays as
\* far as it was written)
WriteFile(i) ==
  /\ jobs[i].pc = "writing"
  /\ \E outcome \in {"written", "failed before", "failed after"} :
       /\ files' = IF outcome = "failed before" THEN files
                   ELSE [files EXCEPT ![jobs[i].path] = i]
       /\ jobs' = [jobs EXCEPT ![i].pc =
                     IF outcome = "written" THEN "written" ELSE "failed"]
  /\ UNCHANGED <<now, built>>

\* res.download(filePath, 'presentation.pptx', ..): the client of request i
\* receives what the file holds now (0: the file is gone, an error)
Download(i) ==
  /\ jobs[i].pc = "written"
  /\ jobs' = [jobs EXCEPT ![i].pc = "sent", ![i].got = files[jobs[i].path]]
  /\ UNCHANGED <<now, files, built>>

\* fs.unlink(filePath, () => {}) in the callback of res.download
Unlink(i) ==
  /\ jobs[i].pc = "sent"
  /\ files' = [files EXCEPT ![jobs[i].path] = 0]
  /\ jobs' = [jobs EXCEPT ![i].pc = "done"]
  /\ UNCHANGED <<now, built>>

\* a millisecond passes
Tick ==
  /\ now < MaxClock
  /\ now' = now + 1
  /\ UNCHANGED <<files, jobs, built>>

InitTemp ==
  /\ route = "part_002 /generate-pptx"
  /\ req = ArrayRequest(<<>>)
  /\ pc = "encode"
  /\ pptx = NewPptx
  /\ si = 1
  /\ oi = 0
  /\ resp = NoResponse
  /\ sends = 0
  /\ log = <<>>
  /\ err = "none"
  /\ NoTempFiles

NextTemp ==
  \/ \E i \in Requests : ComputeFileName(i)
  \/ \E i \in Requests : WriteFile(i)
  \/ \E i \in Requests : Download(i)
  \/ \E i \in Requests : Unlink(i)
  \/ Tick

SpecTemp == InitTemp /\ [][NextTemp]_vars

\* the continuations of a request that has started are run by the event
\* loop: its write ends, its download ends, its callback runs; nothing
\* makes a further request arrive
TempFairness ==
  \A i \in Requests :
    /\ WF_vars(WriteFile(i))
    /\ WF_vars(Download(i))
    /\ WF_vars(Unlink(i))

SpecTempFair == InitTemp /\ [][NextTemp]_vars /\ TempFairness

----------------------------------------------------------------------------
(* index.js: POST /api/presentation/validate-json (lines 309-378), a       *)
(* synchronous handler that answers with a report on the request's slides. *)

sRectangle ==
  Str(<<"r", "e", "c", "t", "a", "n", "g", "l", "e">>)

sUnknown ==
  Str(<<"u", "n", "k", "n", "o", "w", "n">>)

sLine ==
  Str(<<"l", "i", "n", "e">>)

sMissingTextContent ==
  Str(<<"M", "i", "s", "s", "i", "n", "g", " ", "t", "e", "x", "t", " ", "c", "o", "n", "t", "e", "n", "t">>)

sMissingTextOptions ==
  Str(<<"M", "i", "s", "s", "i", "n", "g", " ", "t", "e", "x", "t", " ", "o", "p", "t", "i", "o", "n", "s">>)

sMissingPosition ==
  Str(<<"M", "i", "s", "s", "i", "n", "g", " ", "p", "o", "s", "i", "t", "i", "o", "n", " ", "(", "x", ",", " ", "y", ")">>)

sMissingDimensions ==
  Str(<<"M", "i", "s", "s", "i", "n", "g", " ", "d", "i", "m", "e", "n", "s", "i", "o", "n", "s", " ", "(", "w", ",", " ", "h", ")">>)

sMissingSlides ==
  Str(<<"M", "i", "s", "s", "i", "n", "g", " ", "o", "r", " ", "i", "n", "v", "a", "l", "i", "d", " ", "s", "l", "i", "d", "e", "s", " ", "a", "r", "r", "a", "y">>)

\* v.length of a v that is neither null nor undefined
Length(v) ==
  CASE v.t = "array" -> N(Len(v.a))
    [] v.t = "string" -> N(Len(v.s))
    [] OTHER -> Get(v, "length")

\* the value of an expression, or the TypeError it throws
Value(v) == [thrown |-> FALSE, v |-> v]

TypeError == [thrown |-> TRUE, v |-> Undef]

\* the issues.push(..) calls made for obj, in their order
validate_issues(obj) ==
  LET text == Get(obj, "text")
      rect == Get(obj, "rect")
  IN  (IF Truthy(text) /\ ~Truthy(Get(text, "text"))
       THEN <<sMissingTextContent>> ELSE <<>>)
      \o (IF Truthy(text) /\ ~Truthy(Get(text, "options"))
          THEN <<sMissingTextOptions>> ELSE <<>>)
      \o (IF Truthy(rect) /\ (Get(rect, "x") = Undef \/ Get(rect, "y") = Undef)
          THEN <<sMissingPosition>> ELSE <<>>)
      \o (IF Truthy(rect) /\ (Get(rect, "w") = Undef \/ Get(rect, "h") = Undef)
          THEN <<sMissingDimensions>> ELSE <<>>)

\* obj.rect ? 'rectangle' : obj.text ? 'text' : obj.shape ? 'shape' : ..
validate_type(obj) ==
  IF Truthy(Get(obj, "rect")) THEN sRectangle
  ELSE IF Truthy(Get(obj, "text")) THEN sText
  ELSE IF Truthy(Get(obj, "shape")) THEN sShape
  ELSE IF Truthy(Get(obj, "line")) THEN sLine
  ELSE sUnknown

\* the callback of slide.objects.forEach: the entry pushed for obj
validate_object(obj, objIndex) ==
  IF Nullish(obj) THEN TypeError
  ELSE Value(Obj(<< <<"index", N(objIndex)>>,
                    <<"type", validate_type(obj)>>,
                    <<"valid", Bool(validate_issues(obj) = <<>>)>>,
                    <<"issues", Arr(validate_issues(obj))>> >>))

\* the callback of slides.forEach: the entry pushed for slide
validate_slide(slide, index) ==
  IF Nullish(slide) THEN TypeError
  ELSE
    LET objects == Get(slide, "objects")
        visited == IF Truthy(objects) /\ IsArray(objects) THEN objects.a ELSE <<>>
        entries == [i \in 1..Len(visited) |-> validate_object(visited[i], i - 1)]
    IN  IF \E i \in 1..Len(visited) : entries[i].thrown THEN TypeError
        ELSE Value(Obj(<<
               <<"slideNumber", Or(Get(slide, "slideNumber"), N(index + 1))>>,
               <<"objectCount",
                 Or(IF Nullish(objects) THEN Undef ELSE Length(objects), N(0))>>,
               <<"objects", Arr([i \in 1..Len(visited) |-> entries[i].v])>> >>))

\* the handler: the response it sends
validateJson(body) ==
  LET slides == Get(body, "slides")
  IN  IF ~Truthy(slides) \/ ~IsArray(slides)
      THEN Json(400, Obj(<< <<"valid", Bool(FALSE)>>, <<"error", sMissingSlides>> >>))
      ELSE
        LET entries == [i \in 1..Len(slides.a) |-> validate_slide(slides.a[i], i - 1)]
        IN  IF \E i \in 1..Len(slides.a) : entries[i].thrown
            THEN Json(500, Obj(<< <<"valid", Bool(FALSE)>>,
                                  <<"error", Str(<<"error.message">>)>> >>))
            ELSE Json(200, Obj(<<
                   <<"valid", Bool(TRUE)>>,
                   <<"slideCount", N(Len(slides.a))>>,
                   <<"slides", Arr([i \in 1..Len(slides.a) |-> entries[i].v])>> >>))

ValidateHandler ==
  /\ pc = "handler"
  /\ route = "/api/presentation/validate-json"
  /\ SendResponse(validateJson(req.body))
  /\ err' = IF validateJson(req.body).status = 500 THEN "TypeError" ELSE err
  /\ pc' = "done"
  /\ UNCHANGED <<now, files, jobs, route, req, pptx, si, oi, log>>

\* objects with a complete and an incomplete rect, a complete and an
\* incomplete text, a text that is a string, a rect next to a text, a
\* shape, a line, an object of no known kind, and null
ValidateObjects ==
  { Null,
    Obj(<< <<"foo", N(1)>> >>),
    Obj(<< <<"rect", Obj(<< <<"x", N(0)>>, <<"y", N(0)>>, <<"w", N(1)>>, <<"h", N(1)>> >>)>> >>),
    Obj(<< <<"rect", Obj(<< <<"x", N(0)>> >>)>> >>),
    Obj(<< <<"text", Obj(<< <<"text", Hi>>, <<"options", EmptyObj>> >>)>> >>),
    Obj(<< <<"text", Obj(<< <<"options", EmptyObj>> >>)>> >>),
    Obj(<< <<"text", Hi>> >>),
    Obj(<< <<"text", Obj(<< <<"text", Hi>>, <<"options", EmptyObj>> >>)>>,
           <<"rect", Obj(<< <<"w", N(1)>>, <<"h", N(1)>> >>)>> >>),
    Obj(<< <<"shape", EmptyObj>>, <<"line", EmptyObj>> >>),
    Obj(<< <<"line", EmptyObj>> >>) }

InitValidate ==
  InitOver({"/api/presentation/validate-json"}, OtherRequests, ValidateObjects,
           MaxSlides, MaxElems)

NextValidate ==
  \/ JsonVerify
  \/ JsonParse
  \/ ValidateHandler
  \/ GlobalErrorHandler

SpecValidate == InitValidate /\ [][NextValidate]_vars

----------------------------------------------------------------------------
(* The specification of the tables: the requests whose `slides` is an      *)
(* array of slides with tables, sent to the two handlers that draw tables  *)
(* from `rows`.                                                            *)

TableRoutes == {"part_001 /generate-pptx", "part_002 /generate-pptx"}

\* the cell that says s
Cell(s) == Obj(<< <<"text", Str(<<s>>)>> >>)

\* the table element with these rows
Table(rows) ==
  Obj(<< <<"table", Obj(<< <<"rows", Arr([r \in 1..Len(rows) |-> Arr(rows[r])])>> >>)>> >>)

\* tables of one to three rows, with rows of different lengths, with a
\* cell that has options and a cell without text, and a table without rows
TableElements ==
  { Table(<< >>),
    Table(<< <<Cell("a")>> >>),
    Table(<< <<Cell("a"), Cell("b")>> >>),
    Table(<< <<Cell("a")>>, <<Cell("b")>> >>),
    Table(<< <<Cell("a"), Cell("b")>>, <<Cell("c"), Cell("d")>> >>),
    Table(<< <<Cell("a"), Cell("b"), Cell("c")>>, <<Cell("d")>> >>),
    Table(<< <<Cell("a")>>, <<EmptyObj, Cell("b")>>, <<Cell("c")>> >>),
    Table(<< <<Obj(<< <<"text", Str(<<"a">>)>>,
                      <<"options", Obj(<< <<"bold", Bool(TRUE)>> >>)>> >>),
               Cell("b")>> >>) }

InitTable == InitOver(TableRoutes, {}, TableElements, MaxSlides, MaxTableElems)

NextTable ==
  \/ JsonParse
  \/ Handler
  \/ ForEachSlide
  \/ ForEachElement
  \/ Encode
  \/ SendArtifact
  \/ Catch

SpecTable == InitTable /\ [][NextTable]_vars

----------------------------------------------------------------------------
(* The specification of the empty presentation: requests with and without  *)
(* slides, sent to a handler that adds a title slide and to one that does  *)
(* not.                                                                    *)

EmptyRoutes == {"/api/presentation/simple", "part_001 /generate-pptx"}

\* the slides of POST /api/presentation/simple: a title, a content, both
SimpleSlides ==
  { Obj(<< <<"title", sT>> >>),
    Obj(<< <<"content", Hi>> >>),
    Obj(<< <<"title", sT>>, <<"content", Hi>> >>) }

\* bodies without `slides` or whose `slides` is null or a number, bodies
\* with metadata, and bodies of one or two slides of SimpleSlides
EmptyOthers ==
  { [kind |-> "json", body |-> EmptyObj],
    [kind |-> "json", body |-> Obj(<< <<"slides", Null>> >>)],
    [kind |-> "json", body |-> Obj(<< <<"slides", N(5)>> >>)],
    [kind |-> "json", body |-> Obj(<< <<"title", sT>>, <<"author", sA>>,
                                       <<"slides", Arr(<<>>)>> >>)] }
  \cup { ArrayRequest(<<a>>) : a \in SimpleSlides }
  \cup { ArrayRequest(<<a, b>>) : a \in SimpleSlides, b \in SimpleSlides }

InitEmpty == InitOver(EmptyRoutes, EmptyOthers, DispatchElements, MaxSlides, MaxElems)

NextEmpty ==
  \/ JsonVerify
  \/ JsonParse
  \/ Handler
  \/ ForEachSlide
  \/ ForEachElement
  \/ Encode
  \/ SendArtifact
  \/ Catch

SpecEmpty == InitEmpty /\ [][NextEmpty]_vars

----------------------------------------------------------------------------
(* The specification of POST /api/slide/image (index.js 733-782): one      *)
(* request whose body parsers and upload.single('image') have run.  The    *)
(* upstream of an image URL answers, fails, or never answers.              *)

sUrl == Str(<<"h", "t", "t", "p", ":", "/", "/", "u">>)

\* the requests: with or without an uploaded file, an imageUrl, a title and
\* options
ImageRequests ==
  { [kind |-> "json", file |-> file,
     body |-> Obj((IF url.t = "undefined" THEN <<>> ELSE << <<"imageUrl", url>> >>)
                  \o (IF title.t = "undefined" THEN <<>> ELSE << <<"title", title>> >>)
                  \o (IF options.t = "undefined" THEN <<>> ELSE << <<"options", options>> >>))] :
      file \in {Undef, Str(<<"f">>)},
      url \in {Undef, EmptyStr, sUrl},
      title \in {Undef, sT, EmptyStr},
      options \in {Undef, EmptyObj, Obj(<< <<"width", N(100)>> >>)} }

\* if (req.file) .. else if (req.body.imageUrl) .. else return 400.  fetch
\* is not imported: it is the global of the runtime, or a ReferenceError
ImageHandler ==
  /\ pc = "handler"
  /\ IF Truthy(req.file)
     THEN pc' = "process" /\ UNCHANGED <<resp, sends, err>>
     ELSE IF Truthy(Get(req.body, "imageUrl"))
     THEN \E defined \in BOOLEAN :
            /\ IF defined THEN pc' = "fetching" /\ err' = err
               ELSE pc' = "catch" /\ err' = "ReferenceError"
            /\ UNCHANGED <<resp, sends>>
     ELSE /\ SendResponse(Json(400, << <<"error", "literal">> >>))
          /\ pc' = "done" /\ err' = err
  /\ UNCHANGED <<now, files, jobs, route, req, pptx, si, oi, log>>

\* await fetch(req.body.imageUrl) settles: the upstream has answered, or the
\* connection has failed.  Nothing in the call bounds the wait.
UpstreamAnswers ==
  /\ pc = "fetching"
  /\ \E answered \in BOOLEAN :
       IF answered THEN pc' = "buffer" /\ err' = err
       ELSE pc' = "catch" /\ err' = "FetchError"
  /\ UNCHANGED <<now, files, jobs, route, req, pptx, si, oi, resp, sends, log>>

\* await response.buffer(): a method of node-fetch that the runtime's own
\* fetch does not have
ReadBuffer ==
  /\ pc = "buffer"
  /\ \E has \in BOOLEAN :
       IF has THEN pc' = "process" /\ err' = err
       ELSE pc' = "catch" /\ err' = "TypeError"
  /\ UNCHANGED <<now, files, jobs, route, req, pptx, si, oi, resp, sends, log>>

\* await processImage(buffer, options), then the title and the image are
\* drawn on the one slide of a new document
ProcessImage ==
  /\ pc = "process"
  /\ \E ok \in BOOLEAN :
       IF ok
       THEN /\ pptx' = DrawLast(DrawLast(AddSlide(NewPptx), "addText",
                         <<Default(Get(req.body, "title"), sImageSlide),
                           Obj(<< <<"x", Num(50)>>, <<"y", Num(50)>>, <<"w", N(9)>>,
                                  <<"h", Num(80)>>, <<"fontSize", N(20)>>,
                                  <<"bold", Bool(TRUE)>>, <<"color", s1f4e79>> >>)>>),
                       "addImage",
                         << Obj(<< <<"data", sDataImage>>, <<"x", Num(150)>>, <<"y", Num(150)>>,
                                   <<"w", N(7)>>, <<"h", N(4)>>,
                                   <<"sizing", Obj(<< <<"type", sContain>>, <<"w", N(7)>>,
                                                      <<"h", N(4)>> >>)>> >>) >>)
            /\ pc' = "encode" /\ err' = err
       ELSE /\ pc' = "catch" /\ err' = "Error" /\ pptx' = pptx
  /\ UNCHANGED <<now, files, jobs, route, req, si, oi, resp, sends, log>>

InitImage ==
  /\ route = "/api/slide/image"
  /\ req \in ImageRequests
  /\ pc = "handler"
  /\ pptx = NoPptx
  /\ si = 0
  /\ oi = 0
  /\ resp = NoResponse
  /\ sends = 0
  /\ log = <<>>
  /\ err = "none"
  /\ NoTempFiles

\* the steps of the server
ImageServer ==
  \/ ImageHandler
  \/ ReadBuffer
  \/ ProcessImage
  \/ Encode
  \/ SendArtifact
  \/ Catch

NextImage ==
  \/ ImageHandler
  \/ UpstreamAnswers
  \/ ReadBuffer
  \/ ProcessImage
  \/ Encode
  \/ SendArtifact
  \/ Catch

\* the server always goes on when it can; the upstream need not answer
SpecImage == InitImage /\ [][NextImage]_vars /\ WF_vars(ImageServer)

----------------------------------------------------------------------------
(* What the properties below read off a state or a step *)

\* the `slides` of the request's body
RequestSlides == IF req.kind = "json" THEN Get(req.body, "slides") ELSE Undef

\* the element the loop over the elements handles next
CurrentElement == ElementList(route, SlideList(req.body)[si])[oi]

\* the draw calls a step adds to the slide under construction
NewDraws ==
  SubSeq(LastSlide(pptx').draws, Len(LastSlide(pptx).draws) + 1,
         Len(LastSlide(pptx').draws))

\* the step leaves the loops because an exception was thrown
Aborts == pc' \in {"catch", "rejected"}

----------------------------------------------------------------------------
(* Properties *)

\* C1: when a multi-slide handler (POST /generate-pptx of part_001, POST
\* /api/presentation/from-json) is done with a request whose `slides` is an
\* array of n entries, the document it built holds exactly n slides: none
\* dropped, none added, whatever the entries are.
C1_OneSlidePerSlideSpec ==
  (/\ pc = "done"
   /\ route \in {"part_001 /generate-pptx", "/api/presentation/from-json"}
   /\ IsArray(RequestSlides))
  => Len(pptx.slides) = Len(RequestSlides.a)

\* the draw call of the first case an element matches in the order: text
\* string, nested text object, text array, table with rows, image, rect,
\* shape, chart, media ("none" when it matches no case)
FirstMatchingDraw(el) ==
  LET text == Get(el, "text")
  IN  CASE IsString(text) -> "addText"
        [] IsString(Get(text, "text")) -> "addText"
        [] IsArray(text) -> "addText"
        [] Truthy(Get(Get(el, "table"), "rows")) -> "addTable"
        [] Truthy(Get(el, "image")) -> "addImage"
        [] Truthy(Get(el, "rect")) -> "addShape"
        [] Truthy(Get(el, "shape")) -> "addShape"
        [] Truthy(Get(el, "chart")) -> "addChart"
        [] Truthy(Get(el, "media")) -> "addMedia"
        [] OTHER -> "none"

\* C2: handling one element, the dispatcher (applySlideContent of part_001,
\* the objects loop of from-json) makes at most one draw call, and a call it
\* makes is the one of the first case the element matches in the priority
\* order.
C2_FirstMatchingCaseOnly ==
  [][ (/\ pc = "element"
       /\ route \in {"part_001 /generate-pptx", "/api/presentation/from-json"}
       /\ ~Nullish(CurrentElement))
      => /\ Len(NewDraws) <= 1
         /\ Len(NewDraws) = 1 =>
              NewDraws[1].fn = FirstMatchingDraw(CurrentElement) ]_vars

\* C3: a request during which constructing or encoding the document threw
\* ends answered by a 500 JSON body with an `error` field, never by the
\* artifact, by another kind of body, or by nothing.
C3_BuildFailureAnswered ==
  (pc = "done" /\ err \in {"TypeError", "EncodeError"})
  => /\ resp.status = 500
     /\ resp.kind = "json"
     /\ \E i \in 1..Len(resp.body) : resp.body[i][1] = "error"

\* an element whose data is invalid: null, a `text` that is not an array
\* where applyElement maps one, a table without rows
InvalidElement(r, el) ==
  \/ Nullish(el)
  \/ r = "part_002 /generate-pptx" /\ Truthy(Get(el, "text")) /\ ~IsArray(Get(el, "text"))
  \/ Truthy(Get(el, "table")) /\ ~IsArray(Get(Get(el, "table"), "rows"))

\* C4: handling an invalid element (POST /api/presentation/advanced,
\* applyElement of part_002) never aborts the request and draws nothing:
\* the element is skipped and the loop goes on.
C4_BadElementSkipped ==
  [][ (/\ pc = "element"
       /\ route \in {"part_002 /generate-pptx", "/api/presentation/advanced"}
       /\ InvalidElement(route, CurrentElement))
      => ~Aborts /\ NewDraws = <<>> ]_vars

KnownTypes == {sText, sImage, sShape, sChart, sTable, sMedia}

KnownFields == {"text", "table", "image", "rect", "shape", "chart", "media"}

\* an element with an unrecognized tag: for the dispatcher on `type`
\* (part_000) no known type, for the dispatcher on content fields
\* (part_001) none of the known fields
Unrecognized(r, el) ==
  /\ el.t = "object"
  /\ IF r = "part_000 /generate-pptx"
     THEN Get(el, "type") \notin KnownTypes
     ELSE \A k \in KnownFields : Get(el, k) = Undef

\* slideData with the unrecognized elements taken out of its lists
WithoutUnrecognized(r, slideData) ==
  IF slideData.t # "object" THEN slideData
  ELSE Obj([i \in 1..Len(slideData.f) |->
             IF IsArray(slideData.f[i][2])
             THEN <<slideData.f[i][1],
                    Arr(SelectSeq(slideData.f[i][2].a,
                                  LAMBDA e : ~Unrecognized(r, e)))>>
             ELSE slideData.f[i]])

\* the request's slides with every unrecognized element absent
RecognizedSlides ==
  [i \in 1..Len(RequestSlides.a) |-> WithoutUnrecognized(route, RequestSlides.a[i])]

RECURSIVE DrawElements(_, _, _)
\* the slide after the dispatcher of r has handled elems in order, and
\* whether one of them threw out of the loop
DrawElements(r, slide, elems) ==
  IF elems = <<>> THEN [slide |-> slide, thrown |-> FALSE]
  ELSE LET e == ElementStep(r, slide, elems[1])
       IN  IF e.thrown THEN [slide |-> e.slide, thrown |-> TRUE]
           ELSE DrawElements(r, e.slide, Tail(elems))

RECURSIVE BuildSlides(_, _, _, _)
\* the document after the handler of r has visited slides[i], slides[i+1], ..
BuildSlides(r, p, slides, i) ==
  IF i > Len(slides) THEN p
  ELSE LET s == SlideStep(r, p, slides[i], i)
       IN  IF s.thrown THEN s.pptx
           ELSE IF s.iter = <<>> THEN BuildSlides(r, s.pptx, slides, i + 1)
           ELSE LET d == DrawElements(r, LastSlide(s.pptx), s.iter)
                IN  IF d.thrown THEN SetLastSlide(s.pptx, d.slide)
                    ELSE BuildSlides(r, SetLastSlide(s.pptx, d.slide), slides, i + 1)

\* C5: the document a handler dispatching with applySlideContent (part_000,
\* part_001) has built when it is done is the document it builds from the
\* same slides with every unrecognized element absent: the draw calls of
\* the other elements of the slide and of all later slides are the same.
C5_UnrecognizedElementIsolated ==
  (pc = "done" /\ route \in DispatchRoutes /\ IsArray(RequestSlides))
  => pptx = BuildSlides(route, HandlerStart(route, req.body).pptx, RecognizedSlides, 1)

\* a finished request whose first slide holds an unrecognized element next
\* to an element that was drawn, followed by a slide with a drawn element
C5_Witness ==
  /\ pc = "done"
  /\ resp = Artifact
  /\ route \in DispatchRoutes
  /\ IsArray(RequestSlides)
  /\ Len(RequestSlides.a) = 2
  /\ \E i \in 1..Len(ElementList(route, RequestSlides.a[1])) :
       Unrecognized(route, ElementList(route, RequestSlides.a[1])[i])
  /\ Len(pptx.slides) = 2
  /\ Len(pptx.slides[1].draws) = 1
  /\ Len(pptx.slides[2].draws) = 1

\* C6: handling an element whose `text` is a plain string s, the dispatcher
\* (applySlideContent of part_001, applyElement of part_002, the objects
\* loop of from-json) raises no error and makes exactly one draw call, a
\* text call whose content is s.
C6_PlainStringTextDrawn ==
  [][ (/\ pc = "element"
       /\ route \in {"part_001 /generate-pptx", "part_002 /generate-pptx",
                     "/api/presentation/from-json"}
       /\ IsString(Get(CurrentElement, "text")))
      => /\ ~Aborts
         /\ Len(NewDraws) = 1
         /\ NewDraws[1].fn = "addText"
         /\ NewDraws[1].args[1] = Get(CurrentElement, "text") ]_vars

\* C7: a request whose body has no `slides` field, and whose encoding does
\* not fail, is answered by the 200 artifact on every generation route.
C7_AbsentSlidesIsEmpty ==
  (/\ pc = "done"
   /\ req.kind = "json"
   /\ RequestSlides = Undef
   /\ err # "EncodeError")
  => resp = Artifact

\* C8: a request whose `slides` is a string, a number or an object (POST
\* /generate-pptx of part_001, POST /api/presentation/from-json), and whose
\* encoding does not fail, is answered by the 200 artifact of a document
\* without slides, a warning having been logged.
C8_NonArraySlidesIsEmpty ==
  (/\ pc = "done"
   /\ route \in {"part_001 /generate-pptx", "/api/presentation/from-json"}
   /\ RequestSlides.t \in {"string", "number", "object"}
   /\ err # "EncodeError")
  => /\ resp = Artifact
     /\ pptx.slides = <<>>
     /\ \E i \in 1..Len(log) : log[i] = "warn"

\* C9: for a request whose `slides` is a string (POST /generate of index.js
\* 1954, POST /generate-pptx of part_001) no presentation object is ever
\* created, and the request ends answered with status 400.
C9_StringSlidesRejected ==
  (/\ route \in {"index.js:1954 /generate", "part_001 /generate-pptx"}
   /\ IsString(RequestSlides))
  => /\ ~pptx.created
     /\ pc = "done" => resp.status = 400

\* C10: for a request whose body is not valid JSON no handler runs, no
\* presentation object is created, and the request ends answered with
\* status 400.
C10_MalformedJsonRejected ==
  req.kind = "malformed"
  => /\ pc # "handler"
     /\ ~pptx.created
     /\ pc = "done" => resp.status = 400

\* a geometry value of the form "p%"
IsPercent(v) == IsString(v) /\ EndsWith(v.s, "%") /\ parseFloat(v).t = "number"

\* p/100 of total, for the percentage string v = "p%"
PercentOf(v, total) == Num((parseFloat(v).n * total.n) \div 10000)

\* every layout the handlers use is 10 inches wide
CanvasWidth == N(10)

\* where a handler reads the geometry of the element it draws first
GeometrySource(r, el) ==
  IF r = "/api/presentation/from-json" THEN Get(el, "rect") ELSE Get(el, "options")

\* C11: when POST /api/presentation/from-json draws a rectangle, or POST
\* /generate-pptx of part_002 a text, whose x or w is a percentage string
\* "p%", the draw call receives for that field p/100 of the canvas width (or
\* the percentage string itself, which the library resolves against the
\* canvas), also when the other fields are absolute.
C11_PercentOfCanvas ==
  [][(/\ pc = "element"
      /\ route \in {"/api/presentation/from-json", "part_002 /generate-pptx"}
      /\ ~Nullish(CurrentElement))
     => \A k \in {"x", "w"} :
          LET v == OptGet(GeometrySource(route, CurrentElement), k)
          IN  IsPercent(v)
              => /\ NewDraws # <<>>
                 /\ Get(NewDraws[1].args[2], k) \in {PercentOf(v, CanvasWidth), v}]_vars

\* a geometry value that is a string without a leading number
Malformed(v) == IsString(v) /\ v.s # <<>> /\ parseFloat(v) = NaN

\* where a handler reads the geometry of the text it draws
TextGeometrySource(r, el) ==
  IF r = "/api/presentation/from-json"
  THEN Get(Get(el, "text"), "options")
  ELSE Get(el, "options")

\* the defaults of the geometry of a text: part_002 lines 26-29, index.js
\* lines 221-224
TextDefault(r, k) ==
  IF r = "/api/presentation/from-json"
  THEN CASE k = "x" -> Num(50) [] k = "y" -> Num(50) [] k = "w" -> N(9) [] OTHER -> N(1)
  ELSE CASE k = "x" -> N(0) [] k = "y" -> N(0) [] k = "w" -> N(10) [] OTHER -> N(1)

\* C12: when POST /generate-pptx of part_002 or POST
\* /api/presentation/from-json draws a text one of whose geometry fields is
\* a string that is not a number, the draw call receives the default of that
\* field (never NaN, never the string as sent), and no exception is thrown.
C12_MalformedGeometryDefaults ==
  [][(/\ pc = "element"
      /\ route \in {"part_002 /generate-pptx", "/api/presentation/from-json"}
      /\ ~Nullish(CurrentElement)
      /\ NewDraws # <<>>
      /\ NewDraws[1].fn = "addText")
     => \A k \in {"x", "y", "w", "h"} :
          Malformed(OptGet(TextGeometrySource(route, CurrentElement), k))
          => /\ ~Aborts
             /\ Get(NewDraws[1].args[2], k) = TextDefault(route, k)]_vars

\* el is a rectangle with origin (0, 0) whose w and h are 100% of the canvas
IsFullBleed(el) ==
  LET rect == OptGet(el, "rect")
  IN  /\ Truthy(rect)
      /\ Get(rect, "x") = N(0) /\ Get(rect, "y") = N(0)
      /\ Get(rect, "w") = s100pct /\ Get(rect, "h") = s100pct

\* C13: when POST /generate-pptx of part_001 or POST
\* /api/presentation/from-json handles a rectangle with origin (0, 0) whose
\* w and h are "100%", the slide's background becomes the rectangle's fill
\* color and no draw call is made for the element.
C13_FullBleedRectIsBackground ==
  [][(/\ pc = "element"
      /\ route \in {"part_001 /generate-pptx", "/api/presentation/from-json"}
      /\ IsFullBleed(CurrentElement))
     => /\ NewDraws = <<>>
        /\ LastSlide(pptx').background =
             Obj(<< <<"color", Get(Get(Get(CurrentElement, "rect"), "fill"), "color")>> >>)]_vars

\* el is a paragraph-array text whose fragments are objects with a string
\* text and whose container asks for bullets
IsBulletList(el) ==
  /\ IsArray(OptGet(el, "text"))
  /\ \A i \in 1..Len(Get(el, "text").a) : IsString(OptGet(Get(el, "text").a[i], "text"))
  /\ Get(Get(el, "options"), "bullet") = Bool(TRUE)

\* the bullet glyph of the requests of the model: "*" stands for U+2022
BulletGlyphs == {"*"}

\* s without its leading bullet glyph, if it has one
StripBullet(s) == IF s # <<>> /\ s[1] \in BulletGlyphs THEN Tail(s) ELSE s

\* C14: when POST /generate-pptx of part_001 or of part_002 draws a
\* paragraph-array text whose container sets bullet to true, the text of
\* each fragment in the draw call is the fragment's text trimmed and without
\* its leading bullet glyph.
C14_BulletGlyphStripped ==
  [][(/\ pc = "element"
      /\ route \in {"part_001 /generate-pptx", "part_002 /generate-pptx"}
      /\ IsBulletList(CurrentElement))
     => /\ Len(NewDraws) = 1
        /\ NewDraws[1].fn = "addText"
        /\ \A i \in 1..Len(Get(CurrentElement, "text").a) :
             Get(NewDraws[1].args[1].a[i], "text")
               = Str(StripBullet(Trim(Get(Get(CurrentElement, "text").a[i], "text").s)))]_vars

\* the bullet flag of fragment i of an addText call: the fragment's own
\* option when it has one, the container's otherwise
EffectiveBullet(call, i) ==
  LET own == Get(Get(call.args[1].a[i], "options"), "bullet")
  IN  IF own.t # "undefined" THEN Truthy(own)
      ELSE Truthy(Get(call.args[2], "bullet"))

\* el is a paragraph-array text whose fragments are objects
IsParagraphList(el) ==
  /\ IsArray(OptGet(el, "text"))
  /\ \A i \in 1..Len(Get(el, "text").a) : Get(el, "text").a[i].t = "object"

\* C15: when POST /generate-pptx of part_001 or of part_002 draws a
\* paragraph-array text, the bullet flag of each fragment in the draw call
\* is true exactly when the container's bullet option or the fragment's own
\* bullet option is true.
C15_BulletFlagIsOr ==
  [][(/\ pc = "element"
      /\ route \in {"part_001 /generate-pptx", "part_002 /generate-pptx"}
      /\ IsParagraphList(CurrentElement))
     => /\ Len(NewDraws) = 1
        /\ NewDraws[1].fn = "addText"
        /\ \A i \in 1..Len(Get(CurrentElement, "text").a) :
             EffectiveBullet(NewDraws[1], i)
               <=> \/ Truthy(Get(Get(CurrentElement, "options"), "bullet"))
                   \/ Truthy(Get(Get(Get(CurrentElement, "text").a[i], "options"), "bullet"))]_vars

\* call is a draw call that element el accounts for: the text it says, or
\* the rectangle at its x
DrawnFrom(call, el) ==
  /\ ~Nullish(el)
  /\ \/ call.fn = "addText" /\ call.args[1] = Get(Get(el, "text"), "text")
     \/ /\ call.fn = "addShape"
        /\ Truthy(Get(el, "rect"))
        /\ Get(call.args[2], "x") = Get(Get(el, "rect"), "x")

RECURSIVE InElementOrder(_, _, _, _)
\* the draw calls can be handed out to the elements from..to of elems so
\* that the elements' positions never decrease along the calls
InElementOrder(draws, elems, from, to) ==
  \/ draws = <<>>
  \/ \E j \in from..to :
       /\ DrawnFrom(draws[1], elems[j])
       /\ InElementOrder(Tail(draws), elems, j, to)

\* C16: after POST /generate-pptx of part_001 or POST
\* /api/presentation/from-json has handled the element at position oi of a
\* slide, the slide's draw calls are those it had before followed by the
\* calls of that element, so that the calls of the slide follow the order of
\* the elements handled so far: each call belongs to an element, and the
\* positions of the elements never decrease along the calls.  The slides
\* finished before are left as they were.
C16_DrawOrderIsElementOrder ==
  [][pc = "element"
     => LET elems == ElementList(route, SlideList(req.body)[si])
            before == LastSlide(pptx).draws
            after  == LastSlide(pptx').draws
        IN  /\ Len(pptx'.slides) = Len(pptx.slides)
            /\ \A s \in 1..(Len(pptx.slides) - 1) : pptx'.slides[s] = pptx.slides[s]
            /\ Len(after) >= Len(before)
            /\ SubSeq(after, 1, Len(before)) = before
            /\ \A k \in (Len(before) + 1)..Len(after) : DrawnFrom(after[k], elems[oi])
            /\ InElementOrder(after, elems, 1, oi)]_vars

\* from-json has answered with a document whose last slide holds the
\* rectangle and the text of one element followed by the text of the next
C16_Witness ==
  /\ pc = "done" /\ resp = Artifact
  /\ route = "/api/presentation/from-json"
  /\ pptx.slides # <<>>
  /\ LET draws == LastSlide(pptx).draws
     IN  /\ Len(draws) = 3
         /\ draws[1].fn = "addShape" /\ draws[2].fn = "addText"
         /\ draws[2].args[1] = Str(<<"C">>)
         /\ draws[3].args[1] = Str(<<"A">>)

\* the top-level fields of a request that are metadata of the document
MetadataFields == {"title", "author", "layout"}

\* how many times the handler has set the document field k
TimesSet(k) == Cardinality({i \in 1..Len(pptx.meta) : pptx.meta[i][1] = k})

\* C17: once POST /generate-pptx of part_002 or POST
\* /api/presentation/from-json has created the document, each of title,
\* author and layout that the request gives has been set exactly once, to
\* the value the request gives, and no value the request gives for one of
\* these fields has been set as another field of the document.
C17_MetadataFieldForField ==
  (/\ route \in {"part_002 /generate-pptx", "/api/presentation/from-json"}
   /\ pptx.created
   /\ pc \notin {"verify", "parse", "handler"})
  => /\ \A k \in MetadataFields :
          Truthy(Get(req.body, k))
          => TimesSet(k) = 1 /\ Lookup(pptx.meta, k) = Get(req.body, k)
     /\ \A i \in 1..Len(pptx.meta) : \A k \in MetadataFields :
          (Truthy(Get(req.body, k)) /\ pptx.meta[i][2] = Get(req.body, k))
          => pptx.meta[i][1] = k

\* the slide has been given the speaker notes text
HasNotes(slide, text) ==
  \E i \in 1..Len(slide.draws) :
    slide.draws[i].fn = "addNotes" /\ slide.draws[i].args[1] = text

\* C18: when POST /generate-pptx of part_001 starts a slide whose SlideSpec
\* carries a `notes` string, the slide it has added holds those notes when
\* the step is over, that is before the first element of the slide is
\* dispatched.
C18_NotesAppliedBeforeElements ==
  [][(/\ pc = "slide"
      /\ route = "part_001 /generate-pptx"
      /\ IsString(OptGet(SlideList(req.body)[si], "notes"))
      /\ Truthy(OptGet(SlideList(req.body)[si], "notes")))
     => /\ ~Aborts
        /\ HasNotes(LastSlide(pptx'), Get(SlideList(req.body)[si], "notes"))]_vars

\* the file name of a Content-Disposition value: what stands between
\* `attachment; filename="` and the closing quote
FileNameOf(header) == SubSeq(header, 23, Len(header) - 1)

\* position i of name holds a double quote without a backslash before it, a
\* carriage return or a line feed
Unsafe(name, i) ==
  \/ name[i] \in {"\r", "\n"}
  \/ name[i] = "\"" /\ (i = 1 \/ name[i - 1] # "\\")

\* C20: when POST /api/presentation/advanced or POST
\* /api/presentation/create has answered with the artifact, the
\* Content-Disposition it has set is an attachment whose file name comes
\* from the request's title (the default title when there is none) and holds
\* no unescaped double quote, no carriage return and no line feed.
C20_FileNameSanitized ==
  (/\ pc = "done" /\ resp = Artifact
   /\ route \in TitledRoutes)
  => LET header == ContentDisposition(route, req.body)
         name   == FileNameOf(header)
     IN  /\ SubSeq(header, 1, 10) = <<"a", "t", "t", "a", "c", "h", "m", "e", "n", "t">>
         /\ \A i \in 1..Len(name) : ~Unsafe(name, i)

\* C19: of the requests to POST /generate-pptx of part_002 in flight at
\* once, each one's temporary file holds its own document from the end of
\* its write until it is sent, and each one's client receives its own
\* document: no request overwrites, deletes or reads the file of another,
\* also when two of them compute the file name in the same millisecond.
C19_OwnTemporaryFile ==
  \A i \in Requests :
    /\ jobs[i].pc = "written" => files[jobs[i].path] = i
    /\ jobs[i].pc \in {"sent", "done"} => jobs[i].got = i

\* C21: every request to POST /api/slide/image is answered in the end, also
\* the request that gives an imageUrl whose upstream never answers: the
\* fetch is given up after its timeout and the request ends with an error.
C21_ImageRequestAnswered == <>(pc = "done" /\ resp.status # 0)

\* el is nothing but a text with a string and no options
IsPlainText(el) ==
  /\ el.t = "object" /\ Len(el.f) = 1
  /\ IsString(Get(Get(el, "text"), "text"))
  /\ Truthy(Get(Get(el, "text"), "text"))
  /\ Get(Get(el, "text"), "options").t = "undefined"

\* the defaults of a text: style, position and size
TextDefaults ==
  << <<"fontSize", N(16)>>, <<"fontFace", sArial>>, <<"color", s000000>>,
     <<"align", sLeft>>, <<"valign", sTop>>,
     <<"x", Num(50)>>, <<"y", Num(50)>>, <<"w", N(9)>>, <<"h", N(1)>> >>

\* C22: when POST /generate-pptx of part_001 or POST
\* /api/presentation/from-json handles a text element without options, it
\* makes one addText call, with the element's string, whose options carry
\* fontSize 16, fontFace "Arial", color "000000", align "left", valign
\* "top" and the default position and size.
C22_TextDefaults ==
  [][(/\ pc = "element"
      /\ route \in {"part_001 /generate-pptx", "/api/presentation/from-json"}
      /\ IsPlainText(CurrentElement))
     => /\ Len(NewDraws) = 1
        /\ NewDraws[1].fn = "addText"
        /\ NewDraws[1].args[1] = Get(Get(CurrentElement, "text"), "text")
        /\ \A i \in 1..Len(TextDefaults) :
             Get(NewDraws[1].args[2], TextDefaults[i][1]) = TextDefaults[i][2]]_vars

\* what the handler of r hands to addTable for a cell of the input
CellDrawn(r, cell) ==
  IF r = "part_002 /generate-pptx" THEN Or(Get(cell, "text"), EmptyStr) ELSE cell

\* C23: when POST /generate-pptx of part_001 or of part_002 handles a table
\* element, it makes one addTable call whose rows are as many as the rows of
\* the input and in their order, and each row's cells as many as the cells
\* of the input row and in their order (part_002 hands over each cell's
\* text, and the cells' options in the same arrangement).
C23_TableOrderKept ==
  [][(/\ pc = "element"
      /\ route \in TableRoutes
      /\ IsArray(Get(OptGet(CurrentElement, "table"), "rows")))
     => LET rows == Get(Get(CurrentElement, "table"), "rows").a
        IN  /\ Len(NewDraws) = 1
            /\ NewDraws[1].fn = "addTable"
            /\ LET out == NewDraws[1].args[1].a
               IN  /\ Len(out) = Len(rows)
                   /\ \A r \in 1..Len(rows) :
                        /\ Len(out[r].a) = Len(rows[r].a)
                        /\ \A c \in 1..Len(rows[r].a) :
                             out[r].a[c] = CellDrawn(route, rows[r].a[c])
            /\ route = "part_002 /generate-pptx"
               => LET opts == Get(NewDraws[1].args[2], "cellOpts").a
                  IN  /\ Len(opts) = Len(rows)
                      /\ \A r \in 1..Len(rows) :
                           /\ Len(opts[r].a) = Len(rows[r].a)
                           /\ \A c \in 1..Len(rows[r].a) :
                                opts[r].a[c] = Or(Get(rows[r].a[c], "options"), EmptyObj)]_vars

\* part_002 has answered with a document whose slide holds a table of two
\* rows of two cells, in the order of the input
C23_Witness ==
  /\ pc = "done" /\ resp = Artifact
  /\ route = "part_002 /generate-pptx"
  /\ pptx.slides # <<>>
  /\ LET draws == LastSlide(pptx).draws
     IN  /\ Len(draws) = 1
         /\ draws[1].fn = "addTable"
         /\ draws[1].args[1] =
              Arr(<< Arr(<<Str(<<"a">>), Str(<<"b">>)>>),
                     Arr(<<Str(<<"c">>), Str(<<"d">>)>>) >>)

\* C24: when POST /api/presentation/simple or POST /generate-pptx of
\* part_001 is done with a request whose `slides` is the empty array, and
\* the encoder has not failed, the answer is the 200 artifact of a document
\* that holds the title slide alone (simple: one slide, with the one text
\* of the title) or no slide at all (part_001).
C24_EmptySlidesTitleOnly ==
  (/\ pc = "done"
   /\ route \in EmptyRoutes
   /\ RequestSlides = Arr(<<>>)
   /\ err # "EncodeError")
  => /\ resp = Artifact
     /\ sends = 1
     /\ IF route = "/api/presentation/simple"
        THEN /\ Len(pptx.slides) = 1
             /\ Len(pptx.slides[1].draws) = 1
             /\ pptx.slides[1].draws[1].fn = "addText"
             /\ pptx.slides[1].draws[1].args[1]
                  = Default(Get(req.body, "title"), sMyPresentation)
        ELSE pptx.slides = <<>>

\* simple has answered a request with a title and an empty `slides` with
\* the artifact of a document of one slide
C24_Witness ==
  /\ pc = "done" /\ resp = Artifact
  /\ route = "/api/presentation/simple"
  /\ RequestSlides = Arr(<<>>)
  /\ Get(req.body, "title") = sT
  /\ Len(pptx.slides) = 1

\* the values NODE_ENV can have when the process starts
Envs == {"development", "production", "test", "unset"}

\* the body of response r holds a stack trace when the process runs with
\* NODE_ENV = env: the `details` of the catch block of from-json, and the
\* page of the framework's own error handler, which prints err.stack
\* unless the environment is "production"
ExposesStack(r, env) ==
  \/ /\ r.kind = "json"
     /\ \E i \in 1..Len(r.body) :
          \/ r.body[i][2] = "err.stack"
          \/ r.body[i][2] = "err.stack if NODE_ENV is development" /\ env = "development"
  \/ r.kind = "html" /\ env # "production"

\* C25: whatever NODE_ENV is, the body of an error response holds a stack
\* trace only if NODE_ENV is "development".
C25_StackOnlyInDevelopment ==
  \A env \in Envs :
    (resp.status >= 400 /\ ExposesStack(resp, env)) => env = "development"

\* C26: no request has a status and a body sent for it more than once,
\* whatever the path through the body parser, the handler and the error
\* handlers.
C26_AtMostOneResponse == sends <= 1

\* el is a rectangle that is not full-bleed: its x or y is a non-zero
\* percentage, or its height is a number below the canvas height
IsPartialRect(el) ==
  LET rect == OptGet(el, "rect")
  IN  /\ Truthy(rect)
      /\ \/ Get(rect, "x") = s50pct
         \/ Get(rect, "y") = s50pct
         \/ (Get(rect, "h").t = "number" /\ Get(rect, "h").n < 750)

\* C27: when POST /api/presentation/from-json handles a rectangle that is
\* not full-bleed, the slide's background is left as it was and the
\* rectangle is drawn as a shape.
C27_PartialRectIsShape ==
  [][(/\ pc = "element"
      /\ route = "/api/presentation/from-json"
      /\ IsPartialRect(CurrentElement))
     => /\ LastSlide(pptx').background = LastSlide(pptx).background
        /\ Len(NewDraws) = 1
        /\ NewDraws[1].fn = "addShape"]_vars

\* the options object of a draw call: its last argument
OptionsOf(call) == call.args[Len(call.args)]

\* C28: when POST /api/presentation/advanced draws an element, every option
\* the element supplies reaches the draw call unchanged; a default stands
\* only where the element has no such option.
C28_SuppliedOptionsKept ==
  [][(/\ pc = "element"
      /\ route = "/api/presentation/advanced"
      /\ Len(NewDraws) = 1)
     => \A i \in 1..Len(OptionsOf(NewDraws[1]).f) :
          LET k == OptionsOf(NewDraws[1]).f[i][1]
          IN  (k # "type" /\ Get(CurrentElement, k) # Undef)
                => OptionsOf(NewDraws[1]).f[i][2] = Get(CurrentElement, k)]_vars

\* C29: every temporary file of POST /generate-pptx of part_002 that exists
\* is deleted in the end, whichever way its request ends.
C29_TempFileDeleted ==
  \A t \in 0..MaxClock : (files[t] # 0) ~> (files[t] = 0)

\* the entries the report has for the objects of slide, given the entry of
\* the slide: one per element of an `objects` array, in order, each valid
\* exactly when it has no issues and typed by the first of rect, text,
\* shape, line that obj has
ObjectsReported(slide, entry) ==
  LET objects == OptGet(slide, "objects")
      listed  == IF IsArray(objects) THEN objects.a ELSE <<>>
      entries == Get(entry, "objects")
  IN  /\ IsArray(entries)
      /\ Len(entries.a) = Len(listed)
      /\ \A i \in 1..Len(listed) :
           /\ Get(entries.a[i], "index") = N(i - 1)
           /\ Get(entries.a[i], "valid") =
                Bool(Get(entries.a[i], "issues") = Arr(<<>>))
           /\ Get(entries.a[i], "type") =
                (IF Truthy(OptGet(listed[i], "rect")) THEN sRectangle
                 ELSE IF Truthy(OptGet(listed[i], "text")) THEN sText
                 ELSE IF Truthy(OptGet(listed[i], "shape")) THEN sShape
                 ELSE IF Truthy(OptGet(listed[i], "line")) THEN sLine
                 ELSE sUnknown)

\* C30: POST /api/presentation/validate-json answers 400 with valid = false
\* when `slides` is missing or not an array; otherwise it answers with a
\* report whose slideCount is the number of slides and that has one slide
\* entry per slide, in order, with one object entry per element of the
\* slide's `objects` array, valid exactly when without issues and typed by
\* the priority rect, text, shape, line, unknown.
C30_ValidationReport ==
  (/\ pc = "done"
   /\ route = "/api/presentation/validate-json"
   /\ req.kind = "json")
  => LET slides == Get(req.body, "slides")
     IN  IF ~IsArray(slides)
         THEN resp.status = 400 /\ Get(resp.body, "valid") = Bool(FALSE)
         ELSE /\ resp.status = 200
              /\ Get(resp.body, "slideCount") = N(Len(slides.a))
              /\ IsArray(Get(resp.body, "slides"))
              /\ Len(Get(resp.body, "slides").a) = Len(slides.a)
              /\ \A i \in 1..Len(slides.a) :
                   ObjectsReported(slides.a[i], Get(resp.body, "slides").a[i])
=============================================================================
